---------------------------- MODULE Spec2Model ----------------------------
(***************************************************************************)
(* A model of the local PII redaction engine of mjctl (src/src/lib/pii.ts).*)
(*                                                                         *)
(* Strings are sequences of one-character strings.  A Span is a record     *)
(* [start, end, value, kind, source]; a span without a source carries      *)
(* source = "none" (the optional field left undefined).                    *)
(*                                                                         *)
(* The module holds several specifications over the same variables:        *)
(*   Spec           one invocation of redactResumeFile, a step per await,  *)
(*                  with its reads, flagger call and writes able to fail   *)
(*   SpecResolver   mergeAndDedupe applied to bounded candidate lists      *)
(*   SpecNormalize  normalizeText applied once and twice to bounded texts  *)
(*   SpecRedact     the loop of applyRedaction over ascending spans        *)
(*   SpecTag        applyRedaction applied to two documents side by side   *)
(*   SpecLayout     chooseNameCandidate applied to bounded first pages     *)
(*   SpecSend       one call of ApiClient.sendRequest and its attempts     *)
(*   SpecLogout     the auth logout command                                *)
(* Each specification leaves the variables of the others at their idle     *)
(* values.                                                                 *)
(***************************************************************************)
EXTENDS Integers, Sequences, FiniteSets, TLC

VARIABLES
    \* ---- resolver (mergeAndDedupe as a pure function) ----
    rpc,          \* "input" | "done" | "idle"
    candidates,   \* the candidate spans, in the caller's order
    resolved,     \* mergeAndDedupe(candidates)
    \* ---- normalizer (normalizeText as a pure function) ----
    npc,          \* "input" | "once" | "twice" | "idle"
    nInput,       \* the string x
    nOnce,        \* normalizeText(x)
    nTwice,       \* normalizeText(normalizeText(x))
    \* ---- redactor (the loop of applyRedaction) ----
    apc,          \* "loop" | "done" | "idle"
    aText,        \* text
    aSpans,       \* spans, ascending and non-overlapping
    aModes,       \* modes: a partial table, "undef" where a kind has no entry
    aOut,         \* out
    aLast,        \* last
    aIdx,         \* index of the span the loop is at
    \* ---- one invocation of redactResumeFile ----
    pc,              \* "read" | "flag" | "flagHung" | "redact" | "write1" | "write2"
                     \* | "done" | "failed" | "aborted" | "idle"
    ext,             \* the file's extension: "pdf" | "txt"
    detectName,      \* opts.detectNameFromLayout !== false
    hasFlagger,      \* whether opts.flagger is given
    optModes,        \* opts.modes: a partial table ("undef": no entry)
    rawText,         \* rawText
    layoutCandidate, \* layoutCandidate (NoLine: null)
    normalized,      \* normalized
    spanList,        \* spans: the candidate spans, before the merge
    flagged,         \* what the flagger returned
    flagOutcome,     \* how the flagger call ended: "uncalled" | "returned" | "threw" | "hung"
    hits,            \* the resolved spans (Result.hits)
    modeTable,       \* modes: the effective mode table
    redacted,        \* Result.redactedText
    counts,          \* Result.counts
    fileHash,        \* Result.fileHashSha256
    redactedFile,    \* <base>.redacted.txt: "untouched" | "partial" | "written"
    reportFile,      \* <base>.pii.report.json: likewise
    error,           \* why the invocation failed: "none" | "read" | "layout" | "apply"
                     \* | "write"
    \* ---- two documents redacted side by side ----
    tpc,             \* "input" | "done" | "idle"
    tagDocs,         \* the two documents: [text, span] each
    tagOuts,         \* applyRedaction of each
    \* ---- chooseNameCandidate as a pure function ----
    lpc,             \* "input" | "done" | "idle"
    lPage,           \* firstPageLines
    lChosen,         \* chooseNameCandidate(firstPageLines)
    \* ---- ApiClient.sendRequest: one call and its attempts ----
    spc,               \* "idle", "attempt", "returned" or "thrown"
    sOptions,          \* the options of the call: method, auth, key, maxAttempts
    sMethod,           \* method, upper-cased or defaulted
    sHeaders,          \* the Idempotency-Key of the headers built before the loop
    attempt,           \* the loop counter
    lastStatusCode,    \* status of the last failure retried, 0 while undefined
    sTokens,           \* the token bundle in the keychain
    sClock,            \* seconds since the call started
    sLog,              \* what each iteration of the loop did
    sResult,           \* the attempt whose response is returned, 0 for none
    sError,            \* the error thrown to the caller
    \* ---- the auth logout command ----
    opc,             \* "idle" | "start" | "revoke" | "delete" | "done" | "aborted"
    oStored,         \* the token bundle in the keychain when the command starts
    oTokens,         \* the token bundle in the keychain now
    oStatus,         \* how checkUserStatus ended
    oEvents          \* requests sent and keychain deletions, in order

resolverVars == <<rpc, candidates, resolved>>
normVars == <<npc, nInput, nOnce, nTwice>>
redactVars == <<apc, aText, aSpans, aModes, aOut, aLast, aIdx>>
optionVars == <<ext, detectName, hasFlagger, optModes>>
pipeVars == <<pc, optionVars, rawText, layoutCandidate, normalized, spanList, flagged, flagOutcome,
              hits, modeTable, redacted, counts, fileHash, redactedFile, reportFile, error>>
tagVars == <<tpc, tagDocs, tagOuts>>
layoutVars == <<lpc, lPage, lChosen>>
sendVars == <<spc, sOptions, sMethod, sHeaders, attempt, lastStatusCode, sTokens, sClock, sLog, sResult, sError>>
logoutVars == <<opc, oStored, oTokens, oStatus, oEvents>>
vars == <<resolverVars, normVars, redactVars, pipeVars, tagVars, layoutVars, sendVars, logoutVars>>

\* The values a group of variables keeps under the specifications that do
\* not use it.
ResolverIdle ==
    /\ rpc = "idle"
    /\ candidates = <<>>
    /\ resolved = <<>>

NormIdle ==
    /\ npc = "idle"
    /\ nInput = <<>>
    /\ nOnce = <<>>
    /\ nTwice = <<>>

RedactIdle ==
    /\ apc = "idle"
    /\ aText = <<>>
    /\ aSpans = <<>>
    /\ aModes = <<>>
    /\ aOut = <<>>
    /\ aLast = 0
    /\ aIdx = 0

PipeIdle ==
    /\ pc = "idle"
    /\ ext = "txt" /\ detectName = FALSE /\ hasFlagger = FALSE /\ optModes = <<>>
    /\ rawText = <<>> /\ layoutCandidate = <<>> /\ normalized = <<>>
    /\ spanList = <<>> /\ flagged = <<>> /\ flagOutcome = "uncalled"
    /\ hits = <<>> /\ modeTable = <<>>
    /\ redacted = <<>> /\ counts = <<>> /\ fileHash = <<>>
    /\ redactedFile = "untouched" /\ reportFile = "untouched"
    /\ error = "none"

TagIdle == tpc = "idle" /\ tagDocs = <<>> /\ tagOuts = <<>>

LayoutIdle == lpc = "idle" /\ lPage = <<>> /\ lChosen = <<>>

SendIdle ==
    /\ spc = "idle" /\ sOptions = <<>> /\ sMethod = <<>> /\ sHeaders = ""
    /\ attempt = 0 /\ lastStatusCode = 0 /\ sTokens = <<>> /\ sClock = 0
    /\ sLog = <<>> /\ sResult = 0 /\ sError = <<>>

LogoutIdle ==
    /\ opc = "idle" /\ oStored = <<>> /\ oTokens = <<>> /\ oStatus = <<>> /\ oEvents = <<>>

\* What each specification leaves alone.
resolverRest == <<normVars, redactVars, pipeVars, tagVars, layoutVars, sendVars, logoutVars>>
normRest == <<resolverVars, redactVars, pipeVars, tagVars, layoutVars, sendVars, logoutVars>>
redactRest == <<resolverVars, normVars, pipeVars, tagVars, layoutVars, sendVars, logoutVars>>
pipeRest == <<resolverVars, normVars, redactVars, tagVars, layoutVars, sendVars, logoutVars>>
tagRest == <<resolverVars, normVars, redactVars, pipeVars, layoutVars, sendVars, logoutVars>>
layoutRest == <<resolverVars, normVars, redactVars, pipeVars, tagVars, sendVars, logoutVars>>
sendRest == <<resolverVars, normVars, redactVars, pipeVars, tagVars, layoutVars, logoutVars>>
logoutRest == <<resolverVars, normVars, redactVars, pipeVars, tagVars, layoutVars, sendVars>>

ResolverRestIdle == NormIdle /\ RedactIdle /\ PipeIdle /\ TagIdle /\ LayoutIdle /\ SendIdle /\ LogoutIdle
NormRestIdle == ResolverIdle /\ RedactIdle /\ PipeIdle /\ TagIdle /\ LayoutIdle /\ SendIdle /\ LogoutIdle
RedactRestIdle == ResolverIdle /\ NormIdle /\ PipeIdle /\ TagIdle /\ LayoutIdle /\ SendIdle /\ LogoutIdle
PipeRestIdle == ResolverIdle /\ NormIdle /\ RedactIdle /\ TagIdle /\ LayoutIdle /\ SendIdle /\ LogoutIdle
TagRestIdle == ResolverIdle /\ NormIdle /\ RedactIdle /\ PipeIdle /\ LayoutIdle /\ SendIdle /\ LogoutIdle
LayoutRestIdle == ResolverIdle /\ NormIdle /\ RedactIdle /\ PipeIdle /\ TagIdle /\ SendIdle /\ LogoutIdle
SendRestIdle == ResolverIdle /\ NormIdle /\ RedactIdle /\ PipeIdle /\ TagIdle /\ LayoutIdle /\ LogoutIdle
LogoutRestIdle == ResolverIdle /\ NormIdle /\ RedactIdle /\ PipeIdle /\ TagIdle /\ LayoutIdle /\ SendIdle

(***************************************************************************)
(* Bounds                                                                  *)
(***************************************************************************)
\* Longest candidate list handed to the resolver.
MaxCands == 3

\* Most pieces an input of the normalizer is put together from.
MaxNormPieces == 3

\* Longest text handed to the redactor on its own.
MaxRedactLen == 5

\* Most pieces the text of a document is put together from.
MaxPieces == 2

\* Most characters before the span of a document redacted side by side with
\* another.
MaxTagPad == 2

\* Most lines of a first page handed to the name detector on its own.
MaxLines == 2

\* Character offsets of the resolver's candidates.
ResolverOffsets == 0..4

(***************************************************************************)
(* Generic helpers                                                         *)
(***************************************************************************)
Min(a, b) == IF a < b THEN a ELSE b
Max(a, b) == IF a > b THEN a ELSE b

\* String.prototype.slice(a, b): negative indices count from the end, both
\* are clamped into [0, length], and an empty string results when a >= b.
Slice(t, a, b) ==
    LET n  == Len(t)
        lo == IF a < 0 THEN Max(n + a, 0) ELSE Min(a, n)
        hi == IF b < 0 THEN Max(n + b, 0) ELSE Min(b, n)
    IN  IF lo >= hi THEN <<>> ELSE SubSeq(t, lo + 1, hi)

\* The concatenation of a sequence of strings.
RECURSIVE Flatten(_)
Flatten(ss) == IF ss = <<>> THEN <<>> ELSE Head(ss) \o Flatten(Tail(ss))

(***************************************************************************)
(* Characters.  "nbsp" stands for U+00A0, the one character of the model   *)
(* that Unicode compatibility normalization changes.                       *)
(***************************************************************************)
\* The characters \s matches.
IsSpace(c) == c \in {" ", "\t", "\n", "\r", "nbsp"}

\* The characters [ \t] matches.
IsBlank(c) == c \in {" ", "\t"}

LowerLetters ==
    <<"a", "b", "c", "d", "e", "f", "g", "h", "i", "j", "k", "l", "m",
      "n", "o", "p", "q", "r", "s", "t", "u", "v", "w", "x", "y", "z">>

UpperLetters ==
    <<"A", "B", "C", "D", "E", "F", "G", "H", "I", "J", "K", "L", "M",
      "N", "O", "P", "Q", "R", "S", "T", "U", "V", "W", "X", "Y", "Z">>

toLowerCase(c) ==
    IF \E i \in 1..26 : UpperLetters[i] = c
    THEN LowerLetters[CHOOSE i \in 1..26 : UpperLetters[i] = c]
    ELSE c

toUpperCase(c) ==
    IF \E i \in 1..26 : LowerLetters[i] = c
    THEN UpperLetters[CHOOSE i \in 1..26 : LowerLetters[i] = c]
    ELSE c

\* Length of the run of characters satisfying \s that starts at index i.
RECURSIVE spaceRun(_, _)
spaceRun(s, i) ==
    IF i <= Len(s) /\ IsSpace(s[i]) THEN 1 + spaceRun(s, i + 1) ELSE 0

\* Whether the literal lit occurs in s at index i, ignoring case.
matchesAt(s, i, lit) ==
    /\ i + Len(lit) - 1 <= Len(s)
    /\ \A k \in 1..Len(lit) : toLowerCase(s[i + k - 1]) = toLowerCase(lit[k])

(***************************************************************************)
(* Normalizer                                                              *)
(***************************************************************************)
\* input.normalize("NFKC"), character by character.
nfkcChar(c) == IF c = "nbsp" THEN " " ELSE c

nfkc(s) == [i \in 1..Len(s) |-> nfkcChar(s[i])]

\* s.replace(/\s*LIT\s*/gi, repl) from index i on: leftmost matches, the
\* whitespace on both sides taken greedily, the scan resumed after a match.
RECURSIVE replaceMarkerFrom(_, _, _, _)
replaceMarkerFrom(s, i, lit, repl) ==
    IF i > Len(s) THEN <<>>
    ELSE LET j == i + spaceRun(s, i)
         IN  IF matchesAt(s, j, lit)
             THEN LET e == j + Len(lit)
                  IN  repl \o replaceMarkerFrom(s, e + spaceRun(s, e), lit, repl)
             ELSE <<s[i]>> \o replaceMarkerFrom(s, i + 1, lit, repl)

replaceMarker(s, lit, repl) == replaceMarkerFrom(s, 1, lit, repl)

\* s.replace(/[ \t]+/g, " ")
RECURSIVE collapseBlanks(_)
collapseBlanks(s) ==
    IF s = <<>> THEN <<>>
    ELSE IF IsBlank(Head(s))
         THEN IF Len(s) > 1 /\ IsBlank(s[2])
              THEN collapseBlanks(Tail(s))
              ELSE <<" ">> \o collapseBlanks(Tail(s))
         ELSE <<Head(s)>> \o collapseBlanks(Tail(s))

\* s.replace(/\r/g, "")
stripCR(s) == SelectSeq(s, LAMBDA c : c # "\r")

AtParen   == <<"(", "a", "t", ")">>
AtBracket == <<"[", "a", "t", "]">>
DotParen   == <<"(", "d", "o", "t", ")">>
DotBracket == <<"[", "d", "o", "t", "]">>

normalizeText(input) ==
    LET s1 == nfkc(input)
        s2 == replaceMarker(replaceMarker(s1, AtParen, <<"@">>), AtBracket, <<"@">>)
        s3 == replaceMarker(replaceMarker(s2, DotParen, <<".">>), DotBracket, <<".">>)
    IN  stripCR(collapseBlanks(s3))

(***************************************************************************)
(* Types                                                                   *)
(***************************************************************************)
Kind == {"email", "phone", "url", "linkedin", "github",
         "address", "id", "name", "org", "loc"}

Source == {"regex", "ner", "flagger", "layout", "none"}

MkSpan(start, end, value, kind, source) ==
    [start |-> start, end |-> end, value |-> value, kind |-> kind, source |-> source]

(***************************************************************************)
(* Regular expressions.  A pattern is a sequence of items, matched left to *)
(* right with backtracking as the regular expression engine does:          *)
(*   [t |-> "cls", c, min, max]  a character class repeated min..max times,*)
(*                               greedily                                  *)
(*   [t |-> "alt", lits]         one of the literals, tried in order       *)
(*   [t |-> "wb"]                \b                                         *)
(* Offsets are 0-based: the character at offset p is text[p + 1].          *)
(***************************************************************************)
IsDigit(c) == c \in {"0", "1", "2", "3", "4", "5", "6", "7", "8", "9"}

IsLetter(c) == \E i \in 1..26 : LowerLetters[i] = c \/ UpperLetters[i] = c

\* \w
IsWord(c) == IsLetter(c) \/ IsDigit(c) \/ c = "_"

InClass(cls, c) ==
    CASE cls = "digit"       -> IsDigit(c)                               \* [0-9], \d
      [] cls = "alpha"       -> IsLetter(c)                              \* [A-Z] with i, [A-Za-z]
      [] cls = "emailLocal"  -> IsLetter(c) \/ IsDigit(c) \/ c \in {".", "_", "%", "+", "-"}
      [] cls = "emailDomain" -> IsLetter(c) \/ IsDigit(c) \/ c \in {".", "-"}
      [] cls = "handle"      -> IsLetter(c) \/ IsDigit(c) \/ c \in {".", "_", "-"}
      [] cls = "sep"         -> IsSpace(c) \/ c = "-"                    \* [\s-]
      [] cls = "space"       -> IsSpace(c)                               \* \s
      [] cls = "phoneTail"   -> IsDigit(c) \/ IsSpace(c) \/ c \in {"(", ")", ".", "-"}
      [] cls = "street"      -> IsLetter(c) \/ IsSpace(c) \/ c = "."     \* [A-Za-z\s.]
      [] cls = "idSep"       -> IsSpace(c) \/ c \in {":", "#", "-"}      \* [:\s#-]
      [] cls = "idBody"      -> IsLetter(c) \/ IsDigit(c) \/ c = "-"     \* [A-Z0-9-] with i
      [] cls = "urlBody"     -> ~IsSpace(c) /\ c # ")"                   \* [^\s)]
      [] cls = "plus"        -> c = "+"
      [] cls = "lparen"      -> c = "("
      [] cls = "rparen"      -> c = ")"
      [] cls = "at"          -> c = "@"
      [] cls = "dot"         -> c = "."
      [] cls = "s"           -> toLowerCase(c) = "s"
      [] OTHER               -> FALSE

Cls(c, lo, hi) == [t |-> "cls", c |-> c, min |-> lo, max |-> hi]
Alt(lits) == [t |-> "alt", lits |-> lits]
WordBoundary == [t |-> "wb"]

\* \b at offset p: exactly one of the characters on its two sides is a word
\* character.
atWordBoundary(text, p) ==
    LET left  == p >= 1 /\ IsWord(text[p])
        right == p < Len(text) /\ IsWord(text[p + 1])
    IN  left # right

\* Length of the run of characters of class cls at offset p, at most hi.
RECURSIVE classRun(_, _, _, _)
classRun(text, p, cls, hi) ==
    IF hi > 0 /\ p < Len(text) /\ InClass(cls, text[p + 1])
    THEN 1 + classRun(text, p + 1, cls, hi - 1)
    ELSE 0

\* The offset at which a match of items k.. of the pattern that starts at
\* offset p ends, or -1.
RECURSIVE matchFrom(_, _, _, _)
RECURSIVE matchCounts(_, _, _, _, _)
RECURSIVE matchAlts(_, _, _, _, _)

\* A class repeated n times, then n - 1, ... down to the item's minimum.
matchCounts(pat, k, text, p, n) ==
    IF n < pat[k].min THEN -1
    ELSE LET e == matchFrom(pat, k + 1, text, p + n)
         IN  IF e # -1 THEN e ELSE matchCounts(pat, k, text, p, n - 1)

\* The literals of an alternation from the a-th on.
matchAlts(pat, k, text, p, a) ==
    IF a > Len(pat[k].lits) THEN -1
    ELSE LET lit == pat[k].lits[a]
             e   == IF matchesAt(text, p + 1, lit)
                    THEN matchFrom(pat, k + 1, text, p + Len(lit))
                    ELSE -1
         IN  IF e # -1 THEN e ELSE matchAlts(pat, k, text, p, a + 1)

matchFrom(pat, k, text, p) ==
    IF k > Len(pat) THEN p
    ELSE IF pat[k].t = "wb"
         THEN IF atWordBoundary(text, p) THEN matchFrom(pat, k + 1, text, p) ELSE -1
    ELSE IF pat[k].t = "alt"
         THEN matchAlts(pat, k, text, p, 1)
    ELSE matchCounts(pat, k, text, p, classRun(text, p, pat[k].c, pat[k].max))

\* The matches of t.matchAll(re) from offset p on, as <<start, end>> pairs:
\* the leftmost match, then the leftmost one after its end.
RECURSIVE matchAllFrom(_, _, _)
matchAllFrom(pat, text, p) ==
    IF p > Len(text) THEN <<>>
    ELSE LET e == matchFrom(pat, 1, text, p)
         IN  IF e = -1 THEN matchAllFrom(pat, text, p + 1)
             ELSE <<<<p, e>>>> \o matchAllFrom(pat, text, IF e > p THEN e ELSE p + 1)

matchAll(pat, text) == matchAllFrom(pat, text, 0)

\* re.test(text) / re.exec(text) of a pattern without the g flag: the
\* leftmost match, or <<>>.
RECURSIVE execFrom(_, _, _)
execFrom(pat, text, p) ==
    IF p > Len(text) THEN <<>>
    ELSE LET e == matchFrom(pat, 1, text, p)
         IN  IF e = -1 THEN execFrom(pat, text, p + 1) ELSE <<p, e>>

test(pat, text) == execFrom(pat, text, 0) # <<>>

\* A repetition without an upper limit.
Many == 1000000

Lit(str) == Alt(<<str>>)

(***************************************************************************)
(* Regex layer                                                             *)
(***************************************************************************)
\* /\b[A-Z0-9._%+-]+@[A-Z0-9.-]+\.[A-Z]{2,}\b/gi
R_email ==
    << WordBoundary, Cls("emailLocal", 1, Many), Cls("at", 1, 1),
       Cls("emailDomain", 1, Many), Cls("dot", 1, 1), Cls("alpha", 2, Many), WordBoundary >>

\* /\+?[0-9]{1,3}[\s-]?\(?[0-9]{2,4}\)?[\s-]?[0-9]{3,4}\b/g
R_phone ==
    << Cls("plus", 0, 1), Cls("digit", 1, 3), Cls("sep", 0, 1), Cls("lparen", 0, 1),
       Cls("digit", 2, 4), Cls("rparen", 0, 1), Cls("sep", 0, 1), Cls("digit", 3, 4),
       WordBoundary >>

\* /\bhttps?:\/\/[^\s)]+/gi
R_url ==
    << WordBoundary, Lit(<<"h", "t", "t", "p">>), Cls("s", 0, 1), Lit(<<":", "/", "/">>),
       Cls("urlBody", 1, Many) >>

\* /\blinkedin\.com\/in\/[A-Za-z0-9._-]+/gi
R_linkedin ==
    << WordBoundary,
       Lit(<<"l", "i", "n", "k", "e", "d", "i", "n", ".", "c", "o", "m", "/", "i", "n", "/">>),
       Cls("handle", 1, Many) >>

\* /\bgithub\.com\/[A-Za-z0-9._-]+/gi
R_github ==
    << WordBoundary, Lit(<<"g", "i", "t", "h", "u", "b", ".", "c", "o", "m", "/">>),
       Cls("handle", 1, Many) >>

\* /\b\d{1,5}\s+[A-Za-z][A-Za-z\s.]+(?:Ave|Avenue|St|Street|Rd|Road|Blvd|Drive|Dr)\b/gi
R_address ==
    << WordBoundary, Cls("digit", 1, 5), Cls("space", 1, Many), Cls("alpha", 1, 1),
       Cls("street", 1, Many),
       Alt(<< <<"a", "v", "e">>, <<"a", "v", "e", "n", "u", "e">>, <<"s", "t">>,
              <<"s", "t", "r", "e", "e", "t">>, <<"r", "d">>, <<"r", "o", "a", "d">>,
              <<"b", "l", "v", "d">>, <<"d", "r", "i", "v", "e">>, <<"d", "r">> >>),
       WordBoundary >>

\* /\b(?:SSN|SIN|NIN|PAN|AADHAAR)[:\s#-]?[A-Z0-9-]{4,}\b/gi
R_id ==
    << WordBoundary,
       Alt(<< <<"s", "s", "n">>, <<"s", "i", "n">>, <<"n", "i", "n">>, <<"p", "a", "n">>,
              <<"a", "a", "d", "h", "a", "a", "r">> >>),
       Cls("idSep", 0, 1), Cls("idBody", 4, Many), WordBoundary >>

\* scan(kind, re): one span per match, in match order.
scan(t, kind, pat) ==
    LET ms == matchAll(pat, t)
    IN  [i \in 1..Len(ms) |->
            MkSpan(ms[i][1], ms[i][2], Slice(t, ms[i][1], ms[i][2]), kind, "regex")]

\* out.sort((a, b) => a.start - b.start), stable.
RECURSIVE insertByStart(_, _)
insertByStart(sorted, s) ==
    IF sorted = <<>> THEN <<s>>
    ELSE IF Head(sorted).start <= s.start
         THEN <<Head(sorted)>> \o insertByStart(Tail(sorted), s)
         ELSE <<s>> \o sorted

RECURSIVE sortByStart(_)
sortByStart(spans) ==
    IF spans = <<>> THEN <<>>
    ELSE insertByStart(sortByStart(SubSeq(spans, 1, Len(spans) - 1)), spans[Len(spans)])

findRegexSpans(t) ==
    sortByStart(scan(t, "email", R_email) \o scan(t, "phone", R_phone)
                \o scan(t, "url", R_url) \o scan(t, "linkedin", R_linkedin)
                \o scan(t, "github", R_github) \o scan(t, "address", R_address)
                \o scan(t, "id", R_id))

(***************************************************************************)
(* Layout name detector                                                    *)
(***************************************************************************)
\* s.trim()
RECURSIVE trimStart(_)
trimStart(s) == IF s # <<>> /\ IsSpace(Head(s)) THEN trimStart(Tail(s)) ELSE s

RECURSIVE trimEnd(_)
trimEnd(s) ==
    IF s # <<>> /\ IsSpace(s[Len(s)]) THEN trimEnd(SubSeq(s, 1, Len(s) - 1)) ELSE s

trim(s) == trimEnd(trimStart(s))

\* s.split(/\s+/) of a trimmed string: its maximal runs of non-space
\* characters (one empty token for the empty string).
RECURSIVE splitFrom(_, _)
splitFrom(s, cur) ==
    IF s = <<>> THEN <<cur>>
    ELSE IF IsSpace(Head(s))
         THEN IF Len(s) > 1 /\ IsSpace(s[2])
              THEN splitFrom(Tail(s), cur)
              ELSE <<cur>> \o splitFrom(Tail(s), <<>>)
         ELSE splitFrom(Tail(s), Append(cur, Head(s)))

splitOnSpace(s) == splitFrom(s, <<>>)

headers ==
    { <<"r", "e", "s", "u", "m", "e">>,
      <<"c", "u", "r", "r", "i", "c", "u", "l", "u", "m", " ", "v", "i", "t", "a", "e">>,
      <<"c", "v">>,
      <<"s", "u", "m", "m", "a", "r", "y">>,
      <<"e", "x", "p", "e", "r", "i", "e", "n", "c", "e">>,
      <<"w", "o", "r", "k", " ", "e", "x", "p", "e", "r", "i", "e", "n", "c", "e">>,
      <<"e", "d", "u", "c", "a", "t", "i", "o", "n">>,
      <<"s", "k", "i", "l", "l", "s">>,
      <<"p", "r", "o", "j", "e", "c", "t", "s">>,
      <<"c", "e", "r", "t", "i", "f", "i", "c", "a", "t", "i", "o", "n", "s">>,
      <<"p", "u", "b", "l", "i", "c", "a", "t", "i", "o", "n", "s">>,
      <<"c", "o", "n", "t", "a", "c", "t">>,
      <<"p", "r", "o", "f", "i", "l", "e">>,
      <<"o", "b", "j", "e", "c", "t", "i", "v", "e">> }

startsWith(h, w) == Len(h) >= Len(w) /\ SubSeq(h, 1, Len(w)) = w

looksLikeHeader(s) ==
    LET t == trim(s)
        h == [i \in 1..Len(t) |-> toLowerCase(t[i])]
    IN  \E w \in headers : h = w \/ startsWith(h, w \o <<" ">>)

\* const emailRe = /\b[A-Z0-9._%+-]+@[A-Z0-9.-]+\.[A-Z]{2,}\b/i
emailRe == R_email

\* const phoneRe = /\+?[0-9][0-9()\s.-]{5,}/
phoneRe == << Cls("plus", 0, 1), Cls("digit", 1, 1), Cls("phoneTail", 5, Many) >>

\* A LayoutLine as pdfExtractWithLayout builds it from a line's text, rounded
\* baseline, largest font size and centred/bold flags; x, width and avgFont,
\* which nothing reads, are left out.
mkLine(text, y, maxFont, centered, bold) ==
    [text |-> text, y |-> y, maxFont |-> maxFont, centered |-> centered, bold |-> bold,
     tokenCount |-> Len(SelectSeq(splitOnSpace(trim(text)), LAMBDA tok : tok # <<>>)),
     hasDigits |-> \E i \in 1..Len(text) : IsDigit(text[i]),
     hasEmailOrPhone |-> test(emailRe, text) \/ test(phoneRe, text)]

\* No candidate: null.
NoLine == [text |-> <<>>, y |-> 0, maxFont |-> 0, centered |-> FALSE, bold |-> FALSE,
           tokenCount |-> 0, hasDigits |-> FALSE, hasEmailOrPhone |-> FALSE, score |-> 0]

\* The largest r with r * r <= x, searched between lo and hi.
RECURSIVE isqrtBetween(_, _, _)
isqrtBetween(x, lo, hi) ==
    IF lo >= hi THEN lo
    ELSE LET mid == (lo + hi + 1) \div 2
         IN  IF mid * mid <= x THEN isqrtBetween(x, mid, hi) ELSE isqrtBetween(x, lo, mid - 1)

isqrt(x) == isqrtBetween(x, 0, 46340)

RECURSIVE sumOver(_, _)
sumOver(seq, i) == IF i > Len(seq) THEN 0 ELSE seq[i] + sumOver(seq, i + 1)

RECURSIVE maxOver(_, _)
maxOver(seq, i) ==
    IF i = Len(seq) THEN seq[i] ELSE Max(seq[i], maxOver(seq, i + 1))

RECURSIVE minOver(_, _)
minOver(seq, i) ==
    IF i = Len(seq) THEN seq[i] ELSE Min(seq[i], minOver(seq, i + 1))

\* /^[\p{L}\s'.-]+$/u.test(text) && text === text.toUpperCase()
allCaps(text) ==
    /\ text # <<>>
    /\ \A i \in 1..Len(text) :
          /\ IsLetter(text[i]) \/ IsSpace(text[i]) \/ text[i] \in {"'", ".", "-"}
          /\ toUpperCase(text[i]) = text[i]

\* One thousandth of a score, in the unit scores are kept in.
ScoreScale == 10000

\* The score of a line in fixed point, rounded to the nearest thousandth where
\* the code computes in floating point:
\*   2.5 * z(maxFont) + (centered ? 1.2 : 0) + (bold ? 0.6 : 0) - yTopPct,
\*   + 0.4 for 2..4 tokens, - 0.2 for an all-caps line,
\* with z(f) = (f - meanF) / stdF over all lines (0 when stdF is 0) and
\* yTopPct = (topY - y) / (topY - bottomY + 1e-6).  The 1e-6 makes yTopPct
\* smaller than (topY - y) / (topY - bottomY) by an amount far below a
\* thousandth and proportional to topY - y: the score carries it as
\* topY - y units below the thousandths (baselines less than ScoreScale apart).
scoreOf(l, lines) ==
    LET n      == Len(lines)
        fonts  == [i \in 1..n |-> lines[i].maxFont]
        ys     == [i \in 1..n |-> lines[i].y]
        total  == sumOver(fonts, 1)
        \* n * (f - meanF) for each line, and the sum of their squares
        dev(f) == n * f - total
        sq     == sumOver([i \in 1..n |-> dev(fonts[i]) * dev(fonts[i])], 1)
        \* z(f) = dev(f) * sqrt(n / sq)
        z      == IF sq > 0 THEN (dev(l.maxFont) * isqrt((n * 1000000) \div sq)) ELSE 0
        topY   == maxOver(ys, 1)
        botY   == minOver(ys, 1)
        yTop   == IF topY = botY THEN 0
                  ELSE ((topY - l.y) * 1000 + (topY - botY) \div 2) \div (topY - botY)
    IN  ( (5 * z) \div 2
          + (IF l.centered THEN 1200 ELSE 0)
          + (IF l.bold THEN 600 ELSE 0)
          - yTop
          + (IF l.tokenCount >= 2 /\ l.tokenCount <= 4 THEN 400 ELSE 0)
          - (IF allCaps(l.text) THEN 200 ELSE 0) ) * ScoreScale
        + (topY - l.y)

\* Mutant: section headings are not filtered out.
isCandidate_HeadersPass(l) ==
    /\ l.tokenCount >= 1 /\ l.tokenCount <= 5
    /\ ~l.hasDigits /\ ~l.hasEmailOrPhone

\* The three filters of chooseNameCandidate.
isCandidate(l) ==
    /\ l.tokenCount >= 1 /\ l.tokenCount <= 5
    /\ ~l.hasDigits /\ ~l.hasEmailOrPhone
    /\ ~looksLikeHeader(l.text)

\* Mutant: the first candidate is returned, whatever its score.
chooseNameCandidate_Unsorted(firstPageLines) ==
    LET n      == Len(firstPageLines)
        cands  == { i \in 1..n : isCandidate(firstPageLines[i]) }
        best   == CHOOSE i \in cands : \A j \in cands : i <= j
    IN  IF n = 0 \/ cands = {} THEN NoLine
        ELSE [text |-> firstPageLines[best].text, y |-> firstPageLines[best].y,
              maxFont |-> firstPageLines[best].maxFont,
              centered |-> firstPageLines[best].centered, bold |-> firstPageLines[best].bold,
              tokenCount |-> firstPageLines[best].tokenCount,
              hasDigits |-> firstPageLines[best].hasDigits,
              hasEmailOrPhone |-> firstPageLines[best].hasEmailOrPhone,
              score |-> scoreOf(firstPageLines[best], firstPageLines)]

\* candidates.sort((a, b) => b.score - a.score)[0] ?? null: the sort is
\* stable, so the first of the candidates with the highest score.
chooseNameCandidate(firstPageLines) ==
    LET n      == Len(firstPageLines)
        cands  == { i \in 1..n : isCandidate(firstPageLines[i]) }
        sc(i)  == scoreOf(firstPageLines[i], firstPageLines)
        best   == CHOOSE i \in cands :
                      \A j \in cands : sc(j) < sc(i) \/ (sc(j) = sc(i) /\ i <= j)
    IN  IF n = 0 \/ cands = {} THEN NoLine
        ELSE [text |-> firstPageLines[best].text, y |-> firstPageLines[best].y,
              maxFont |-> firstPageLines[best].maxFont,
              centered |-> firstPageLines[best].centered, bold |-> firstPageLines[best].bold,
              tokenCount |-> firstPageLines[best].tokenCount,
              hasDigits |-> firstPageLines[best].hasDigits,
              hasEmailOrPhone |-> firstPageLines[best].hasEmailOrPhone,
              score |-> sc(best)]

\* Whether the tokens from the k-th on, separated by runs of white space,
\* occur in text at offset p: the offset where they end, or -1.
RECURSIVE tokensAt(_, _, _, _)
tokensAt(text, p, toks, k) ==
    IF ~matchesAt(text, p + 1, toks[k]) THEN -1
    ELSE LET e == p + Len(toks[k])
         IN  IF k = Len(toks) THEN e
             ELSE LET w == spaceRun(text, e + 1)
                  IN  IF w = 0 THEN -1 ELSE tokensAt(text, e + w, toks, k + 1)

RECURSIVE locateFrom(_, _, _)
locateFrom(text, toks, p) ==
    IF p > Len(text) THEN <<>>
    ELSE LET e == tokensAt(text, p, toks, 1)
         IN  IF e = -1 THEN locateFrom(text, toks, p + 1) ELSE <<p, e>>

\* locateCandidateInNormalized: the leftmost occurrence <<start, end>> of the
\* candidate's tokens joined by \s+, ignoring case, or <<>> (null).
locateCandidateInNormalized(normalizedText, candidateRaw) ==
    locateFrom(normalizedText, splitOnSpace(trim(normalizeText(candidateRaw))), 0)

(***************************************************************************)
(* Span resolver                                                           *)
(***************************************************************************)
\* priorityMap / priority: regex 3, flagger 2, layout 2, ner 1, anything else 0.
\* Mutant: every source has the same priority.
priority_Flat(src) == 0

priority(src) ==
    CASE src = "regex"   -> 3
      [] src = "flagger" -> 2
      [] src = "layout"  -> 2
      [] src = "ner"     -> 1
      [] OTHER           -> 0

\* The comparator of the sort: a.start - b.start || b.end - a.end.
compareSpans(a, b) ==
    IF a.start - b.start # 0 THEN a.start - b.start ELSE b.end - a.end

\* Array.prototype.sort is stable: an element goes after every element that
\* does not compare greater than it.
RECURSIVE sortedInsert(_, _)
sortedInsert(sorted, s) ==
    IF sorted = <<>> THEN <<s>>
    ELSE IF compareSpans(Head(sorted), s) <= 0
         THEN <<Head(sorted)>> \o sortedInsert(Tail(sorted), s)
         ELSE <<s>> \o sorted

RECURSIVE sortSpans(_)
sortSpans(spans) ==
    IF spans = <<>> THEN <<>>
    ELSE sortedInsert(sortSpans(SubSeq(spans, 1, Len(spans) - 1)), spans[Len(spans)])

\* const preferS = sLen < topLen || priority(s.source) > priority(top.source)
preferS(s, top) ==
    \/ (s.end - s.start) < (top.end - top.start)
    \/ priority(s.source) > priority(top.source)

\* Mutant: a preferred span is widened to start where the span it replaces
\* started.
mergeStep_Widening(out, s) ==
    IF out = <<>> \/ s.start >= out[Len(out)].end
    THEN Append(out, s)
    ELSE IF preferS(s, out[Len(out)])
         THEN [out EXCEPT ![Len(out)] = [s EXCEPT !.start = out[Len(out)].start]]
         ELSE out

\* One iteration of the loop over the sorted candidates.
mergeStep(out, s) ==
    IF out = <<>> \/ s.start >= out[Len(out)].end
    THEN Append(out, s)
    ELSE IF preferS(s, out[Len(out)])
         THEN [out EXCEPT ![Len(out)] = s]
         ELSE out

RECURSIVE mergeLoop(_, _)
mergeLoop(out, rest) ==
    IF rest = <<>> THEN out
    ELSE mergeLoop(mergeStep(out, Head(rest)), Tail(rest))

\* Mutant: the candidates are walked in the caller's order, never sorted.
mergeAndDedupe_Unsorted(spans) == mergeLoop(<<>>, spans)

mergeAndDedupe(spans) == mergeLoop(<<>>, sortSpans(spans))

(***************************************************************************)
(* Hash tags                                                               *)
(***************************************************************************)
\* new TextEncoder().encode(s): the UTF-8 bytes of the model's characters.
utf8Char(c) ==
    CASE c = " "    -> <<32>>
      [] c = "\t"   -> <<9>>
      [] c = "\n"   -> <<10>>
      [] c = "\r"   -> <<13>>
      [] c = "nbsp" -> <<194, 160>>
      [] c = "1"    -> <<49>>
      [] c = "@"    -> <<64>>
      [] c = "."    -> <<46>>
      [] c = "*"    -> <<42>>
      [] \E i \in 1..26 : LowerLetters[i] = c
                    -> <<96 + (CHOOSE i \in 1..26 : LowerLetters[i] = c)>>
      [] \E i \in 1..26 : UpperLetters[i] = c
                    -> <<64 + (CHOOSE i \in 1..26 : UpperLetters[i] = c)>>
      [] OTHER      -> <<63>>

utf8(s) == Flatten([i \in 1..Len(s) |-> utf8Char(s[i])])

\* crypto.subtle.digest("SHA-256", bytes) is the platform's: the model puts a
\* fixed function from byte strings to 32 bytes in its place (a running
\* checksum spread over the 32 positions).  Of SHA-256 the engine uses only
\* that it is a function of the bytes and that its value is 32 bytes long.
RECURSIVE checksum(_, _)
checksum(bytes, acc) ==
    IF bytes = <<>> THEN acc
    ELSE checksum(Tail(bytes), (acc * 31 + Head(bytes) + 7) % 65521)

digest(bytes) ==
    LET c == checksum(bytes, 1)
    IN  [i \in 1..32 |-> ((c + i) * (2 * i + 1)) % 256]

HexDigits ==
    <<"0", "1", "2", "3", "4", "5", "6", "7", "8", "9", "a", "b", "c", "d", "e", "f">>

\* b.toString(16): one digit below 16, two from 16 on.
toString16(b) ==
    IF b < 16 THEN <<HexDigits[b + 1]>>
    ELSE <<HexDigits[(b \div 16) + 1], HexDigits[(b % 16) + 1]>>

\* b.toString(16).padStart(2, "0")
byteHex(b) ==
    LET h == toString16(b) IN IF Len(h) < 2 THEN <<"0">> \o h ELSE h

sha256Hex(s) ==
    LET d == digest(utf8(s)) IN Flatten([i \in 1..32 |-> byteHex(d[i])])

\* The characters of a kind's name.
kindChars(kind) ==
    CASE kind = "email"    -> <<"e", "m", "a", "i", "l">>
      [] kind = "phone"    -> <<"p", "h", "o", "n", "e">>
      [] kind = "url"      -> <<"u", "r", "l">>
      [] kind = "linkedin" -> <<"l", "i", "n", "k", "e", "d", "i", "n">>
      [] kind = "github"   -> <<"g", "i", "t", "h", "u", "b">>
      [] kind = "address"  -> <<"a", "d", "d", "r", "e", "s", "s">>
      [] kind = "id"       -> <<"i", "d">>
      [] kind = "name"     -> <<"n", "a", "m", "e">>
      [] kind = "org"      -> <<"o", "r", "g">>
      [] kind = "loc"      -> <<"l", "o", "c">>

\* Mutant: the whole hash goes into the tag and the kind keeps its case.
makeTag_Unsliced(kind, value) ==
    <<"[", "[">> \o kindChars(kind) \o <<":">> \o sha256Hex(value) \o <<"]", "]">>

\* `[[${kind.toUpperCase()}:${h}]]` with h the first 8 characters of the hash.
makeTag(kind, value) ==
    LET h == Slice(sha256Hex(value), 0, 8)
        k == kindChars(kind)
    IN  <<"[", "[">> \o [i \in 1..Len(k) |-> toUpperCase(k[i])] \o <<":">> \o h \o <<"]", "]">>

(***************************************************************************)
(* Redaction engine                                                        *)
(***************************************************************************)
RedactionMode == {"hash", "mask", "drop"}

defaultModes ==
    [k \in Kind |->
        CASE k \in {"email", "phone", "url", "linkedin", "github"} -> "hash"
          [] k \in {"address", "name", "org", "loc"}                -> "mask"
          [] k = "id"                                               -> "drop"]

\* A table with no entry for any kind.
NoModes == [k \in Kind |-> "undef"]

\* modes[s.kind] ?? defaultModes[s.kind] ?? "hash"
modeOf(kind, modes) ==
    IF kind \notin Kind THEN "hash"
    ELSE IF modes[kind] # "undef" THEN modes[kind] ELSE defaultModes[kind]

\* "*".repeat(n)
repeatStar(n) == [i \in 1..n |-> "*"]

\* Mutant: the tag of a span is salted with the span's offset.
replacement_SaltedWithOffset(s, modes) ==
    LET m == modeOf(s.kind, modes)
    IN  IF m = "drop" THEN <<>>
        ELSE IF m = "mask" THEN repeatStar(s.end - s.start)
        ELSE makeTag(s.kind, s.value \o repeatStar(s.start))

\* What the loop appends for a span after the text before it.
replacement(s, modes) ==
    LET m == modeOf(s.kind, modes)
    IN  IF m = "drop" THEN <<>>
        ELSE IF m = "mask" THEN repeatStar(s.end - s.start)
        ELSE makeTag(s.kind, s.value)

\* Mutant: last is left at the start of the span.
redactStep_LastAtStart(st, text, s, modes) ==
    [out  |-> st.out \o Slice(text, st.last, s.start) \o replacement(s, modes),
     last |-> s.start]

\* One iteration of the loop of applyRedaction on the state [out, last].
redactStep(st, text, s, modes) ==
    [out  |-> st.out \o Slice(text, st.last, s.start) \o replacement(s, modes),
     last |-> s.end]

\* out += text.slice(last)
redactFinish(st, text) == st.out \o Slice(text, st.last, Len(text))

RECURSIVE redactLoop(_, _, _, _)
redactLoop(st, text, spans, modes) ==
    IF spans = <<>> THEN st
    ELSE redactLoop(redactStep(st, text, Head(spans), modes), text, Tail(spans), modes)

applyRedaction(text, spans, modes) ==
    redactFinish(redactLoop([out |-> <<>>, last |-> 0], text, spans, modes), text)

(***************************************************************************)
(* Specification of the resolver: every candidate list within the bounds   *)
(***************************************************************************)
\* The text the resolver's candidates point into.
ResolverText == <<"a", "b", "c", "d", "e", "f">>

\* Source and kind of a candidate as the detectors pair them: the pattern
\* detector emits its own kinds, the layout detector only names, the flagger
\* any label.
ResolverOrigins ==
    { <<"regex", "email">>, <<"flagger", "org">>, <<"layout", "name">> }

ResolverSpans ==
    { MkSpan(a, b, Slice(ResolverText, a, b), o[2], o[1]) :
        <<a, b, o>> \in { <<x, y, z>> \in ResolverOffsets \X ResolverOffsets \X ResolverOrigins :
                            x < y } }

InitResolver ==
    /\ rpc = "input"
    /\ \E k \in 0..MaxCands : candidates \in [1..k -> ResolverSpans]
    /\ resolved = <<>>
    /\ ResolverRestIdle

Resolve ==
    /\ rpc = "input"
    /\ resolved' = mergeAndDedupe(candidates)
    /\ rpc' = "done"
    /\ UNCHANGED <<candidates, resolverRest>>

NextResolver == Resolve

SpecResolver == InitResolver /\ [][NextResolver]_vars

(***************************************************************************)
(* Properties of the resolver                                              *)
(***************************************************************************)
Overlap(a, b) == a.start < b.end /\ b.start < a.end

SpanLen(s) == s.end - s.start

\* Every reordering of a candidate list.
Reorderings(spans) ==
    LET n == Len(spans)
    IN  { [i \in 1..n |-> spans[f[i]]] :
            f \in { g \in [1..n -> 1..n] : \A i, j \in 1..n : g[i] = g[j] => i = j } }

\* C1: the resolver's output is ordered and non-overlapping: every span of the
\* output ends at or before the start of the next one.
C1_NonOverlapping ==
    rpc = "done" =>
        \A i \in 1..(Len(resolved) - 1) : resolved[i].end <= resolved[i + 1].start

\* C1 witness: three candidates given out of order, two of them overlapping,
\* resolved to two spans.
C1_Witness ==
    /\ rpc = "done"
    /\ Len(candidates) = 3
    /\ candidates[1].start > candidates[2].start
    /\ \E i, j \in 1..3 : i # j /\ Overlap(candidates[i], candidates[j])
    /\ Len(resolved) = 2

\* C8: the resolver's output depends on the candidate set only: every
\* reordering of the candidates resolves to the same list.
C8_OrderIndependent ==
    rpc = "done" => \A p \in Reorderings(candidates) : mergeAndDedupe(p) = resolved

\* C9: of two overlapping candidates of different lengths the shorter one is
\* kept and the longer one discarded, whatever their sources and order.
C9_ShorterWins ==
    (rpc = "done" /\ Len(candidates) = 2
        /\ Overlap(candidates[1], candidates[2])
        /\ SpanLen(candidates[1]) # SpanLen(candidates[2]))
    => resolved = << IF SpanLen(candidates[1]) < SpanLen(candidates[2])
                     THEN candidates[1] ELSE candidates[2] >>

(***************************************************************************)
(* Specification of the normalizer: the strings put together from at most  *)
(* MaxNormPieces pieces, normalized once and then again                    *)
(***************************************************************************)
NormPieces ==
    { <<" ">>, <<"\t">>, <<"\r">>, <<"\n">>, <<"nbsp">>, <<"a">>,
      AtParen, <<"[", "A", "T", "]">>, DotParen, <<"[", "D", "o", "t", "]">>,
      <<"(", "a">>, <<"t", ")">> }

InitNormalize ==
    /\ npc = "input"
    /\ \E k \in 0..MaxNormPieces : \E ps \in [1..k -> NormPieces] : nInput = Flatten(ps)
    /\ nOnce = <<>>
    /\ nTwice = <<>>
    /\ NormRestIdle

NormalizeOnce ==
    /\ npc = "input"
    /\ nOnce' = normalizeText(nInput)
    /\ npc' = "once"
    /\ UNCHANGED <<nInput, nTwice, normRest>>

NormalizeTwice ==
    /\ npc = "once"
    /\ nTwice' = normalizeText(nOnce)
    /\ npc' = "twice"
    /\ UNCHANGED <<nInput, nOnce, normRest>>

NextNormalize == NormalizeOnce \/ NormalizeTwice

SpecNormalize == InitNormalize /\ [][NextNormalize]_vars

\* C7: normalizeText is idempotent: normalizing a normalized string changes
\* nothing.
C7_Idempotent == npc = "twice" => nTwice = nOnce

(***************************************************************************)
(* Specification of the redactor: applyRedaction, one loop iteration per   *)
(* step, on every ascending non-overlapping span list over a text of at    *)
(* most MaxRedactLen characters (the resolver's output is the only list    *)
(* the engine hands to it).                                                *)
(***************************************************************************)
\* The kinds of the redactor's spans: one per default mode.
RedactKinds == {"email", "name", "id"}

RedactSample == <<"a", "1", "@", ".", " ", "b">>

RedactTexts == { Slice(RedactSample, 0, n) : n \in 0..MaxRedactLen }

RedactSpansOf(text) ==
    { MkSpan(a, b, Slice(text, a, b), k, "regex") :
        <<a, b, k>> \in { <<x, y, z>> \in (0..Len(text)) \X (0..Len(text)) \X RedactKinds : x < y } }

\* The ascending non-overlapping span lists over text whose spans start at
\* offset p or later.
RECURSIVE AscendingFrom(_, _)
AscendingFrom(text, p) ==
    {<<>>} \cup
    UNION { { <<s>> \o rest : rest \in AscendingFrom(text, s.end) } :
              s \in { x \in RedactSpansOf(text) : x.start >= p } }

\* The mode tables handed in: no entry at all, or an entry for one kind.
RedactModes ==
    {NoModes} \cup
    { [NoModes EXCEPT ![k] = m] : <<k, m>> \in RedactKinds \X RedactionMode }

InitRedact ==
    /\ apc = "loop"
    /\ aText \in RedactTexts
    /\ aSpans \in AscendingFrom(aText, 0)
    /\ aModes \in RedactModes
    /\ aOut = <<>>
    /\ aLast = 0
    /\ aIdx = 1
    /\ RedactRestIdle

\* for (const s of spans) { ... }
ApplyStep ==
    /\ apc = "loop"
    /\ aIdx <= Len(aSpans)
    /\ LET st == redactStep([out |-> aOut, last |-> aLast], aText, aSpans[aIdx], aModes)
       IN  /\ aOut' = st.out
           /\ aLast' = st.last
    /\ aIdx' = aIdx + 1
    /\ UNCHANGED <<apc, aText, aSpans, aModes, redactRest>>

\* out += text.slice(last); return { redacted: out }
ApplyFinish ==
    /\ apc = "loop"
    /\ aIdx > Len(aSpans)
    /\ aOut' = redactFinish([out |-> aOut, last |-> aLast], aText)
    /\ apc' = "done"
    /\ UNCHANGED <<aText, aSpans, aModes, aLast, aIdx, redactRest>>

NextRedact == ApplyStep \/ ApplyFinish

SpecRedact == InitRedact /\ [][NextRedact]_vars

(***************************************************************************)
(* Properties of the redactor                                              *)
(***************************************************************************)
HexChars ==
    {"0", "1", "2", "3", "4", "5", "6", "7", "8", "9", "a", "b", "c", "d", "e", "f"}

\* r reads [[KIND:hhhhhhhh]]: the kind in upper case and 8 hex characters.
IsTag(r, kind) ==
    LET k == kindChars(kind)
        n == Len(k)
    IN  /\ Len(r) = n + 13
        /\ r[1] = "[" /\ r[2] = "["
        /\ \A i \in 1..n :
              /\ \E j \in 1..26 : UpperLetters[j] = r[2 + i] /\ LowerLetters[j] = k[i]
        /\ r[n + 3] = ":"
        /\ \A i \in 1..8 : r[n + 3 + i] \in HexChars
        /\ r[n + 12] = "]" /\ r[n + 13] = "]"

\* text[a:b] for 0 <= a <= b <= len(text).
Between(text, a, b) == SubSeq(text, a + 1, b)

\* C3: in each iteration of applyRedaction what follows the copied text is,
\* by the span's mode: for mask exactly end - start mask characters, for drop
\* nothing, for hash a tag [[KIND:h]] with the kind in upper case and h exactly
\* 8 hex characters.
C3_ReplacementShape ==
    [][(apc = "loop" /\ aIdx <= Len(aSpans)) =>
        LET s      == aSpans[aIdx]
            m      == modeOf(s.kind, aModes)
            before == aOut \o Between(aText, aLast, s.start)
            r      == SubSeq(aOut', Len(before) + 1, Len(aOut'))
        IN  /\ Len(aOut') >= Len(before)
            /\ SubSeq(aOut', 1, Len(before)) = before
            /\ m \in RedactionMode
            /\ m = "mask" => (Len(r) = s.end - s.start /\ \A i \in 1..Len(r) : r[i] = "*")
            /\ m = "drop" => r = <<>>
            /\ m = "hash" => IsTag(r, s.kind)]_vars

\* C3 witness: a finished run over three spans, one hashed, one masked and
\* one dropped.
C3_Witness ==
    /\ apc = "done"
    /\ Len(aSpans) = 3
    /\ { modeOf(aSpans[i].kind, aModes) : i \in 1..3 } = RedactionMode

\* The output the redactor is to produce: the text between the spans and each
\* span's replacement, in order.
RedactedAsSpecified(text, spans, modes) ==
    LET n == Len(spans)
        piece(i) == Between(text, IF i = 1 THEN 0 ELSE spans[i - 1].end, spans[i].start)
                    \o replacement(spans[i], modes)
    IN  Flatten([i \in 1..n |-> piece(i)])
        \o Between(text, IF n = 0 THEN 0 ELSE spans[n].end, Len(text))

\* C4: for an ascending non-overlapping span list the output is exactly
\* text[0:s1.start] + r1 + text[s1.end:s2.start] + r2 + ... + text[sn.end:]:
\* the text outside the spans unchanged and in order, none of the text the
\* spans cover.
C4_FrameOutsideSpans ==
    apc = "done" => aOut = RedactedAsSpecified(aText, aSpans, aModes)

\* C4 witness: a finished run over two spans with text before the first,
\* between the two and after the second.
C4_Witness ==
    /\ apc = "done"
    /\ Len(aSpans) = 2
    /\ 0 < aSpans[1].start
    /\ aSpans[1].end < aSpans[2].start
    /\ aSpans[2].end < Len(aText)

(***************************************************************************)
(* redactResumeFile                                                        *)
(***************************************************************************)
\* Lines 390-402: the name span of the layout candidate, if it is found in
\* the normalized text.
layoutSpans(norm, cand) ==
    IF cand = NoLine \/ cand.text = <<>> THEN <<>>
    ELSE LET loc == locateCandidateInNormalized(norm, cand.text)
         IN  IF loc = <<>> THEN <<>>
             ELSE << MkSpan(loc[1], loc[2], Slice(norm, loc[1], loc[2]), "name", "layout") >>

\* Mutant: the proposal's offsets are taken as they come.
flagSpan_Unclamped(norm, f) ==
    IF f.end > f.start
    THEN << MkSpan(f.start, f.end, Slice(norm, f.start, f.end), f.label, "flagger") >>
    ELSE <<>>

\* Mutant: a proposal that is empty after clamping is kept.
flagSpan_KeepsEmpty(norm, f) ==
    LET start == Max(0, Min(Len(norm), f.start))
        end   == Max(start, Min(Len(norm), f.end))
    IN  << MkSpan(start, end, Slice(norm, start, end), f.label, "flagger") >>

\* Lines 409-420: the span pushed for one proposal, if any.  A proposal
\* without a label gives a span whose kind is undefined.
flagSpan(norm, f) ==
    LET start == Max(0, Min(Len(norm), f.start))
        end   == Max(start, Min(Len(norm), f.end))
    IN  IF end > start
        THEN << MkSpan(start, end, Slice(norm, start, end), f.label, "flagger") >>
        ELSE <<>>

\* Lines 408-421 inside the try: the proposals are wrapped one by one; reading
\* the offsets of a null proposal throws, which ends the loop with the spans
\* pushed so far.
RECURSIVE flagLoop(_, _, _)
flagLoop(acc, norm, fs) ==
    IF fs = <<>> THEN acc
    ELSE IF Head(fs).shape = "null" THEN acc
    ELSE flagLoop(acc \o flagSpan(norm, Head(fs)), norm, Tail(fs))

\* Mutant: no try/catch around the flagger call.
flagThrowsTo_Uncaught == "failed"

\* Lines 406-424: where the invocation goes when flagger.flag rejects: the
\* catch swallows it.
flagThrowsTo == "redact"

\* Mutant: the caller's table is ignored.
effectiveModes_DefaultsOnly(om) == defaultModes

\* const modes = { ...defaultModes, ...(opts.modes || {}) }
effectiveModes(om) ==
    [k \in Kind |-> IF om[k] # "undef" THEN om[k] ELSE defaultModes[k]]

\* Mutant: every kind is given the total.
tally_TotalPerKind(ss) ==
    [k \in { ss[i].kind : i \in 1..Len(ss) } |-> Len(ss)]

\* for (const s of spans) counts[s.kind] = (counts[s.kind] || 0) + 1
tally(ss) ==
    [k \in { ss[i].kind : i \in 1..Len(ss) } |->
        Cardinality({ i \in 1..Len(ss) : ss[i].kind = k })]

\* applyRedaction awaits makeTag for a hashed span; kind.toUpperCase() throws
\* for a span whose kind is undefined (its mode falls through to "hash").
applyThrows(ss) == \E i \in 1..Len(ss) : ss[i].kind = "undefined"

\* Mutant: the name candidate is looked for whatever the input and the option.
nameCandidate_AnyInput(e, dn, page) == chooseNameCandidate(page)

\* Lines 371-378: layoutCandidate is set only in the PDF branch, and there
\* only when name detection is on.
nameCandidate(e, dn, page) ==
    IF e = "pdf" /\ dn THEN chooseNameCandidate(page) ELSE NoLine

(***************************************************************************)
(* The documents, pages and flagger outputs of the specification of        *)
(* redactResumeFile                                                        *)
(***************************************************************************)
TextPieces ==
    { <<"1", "1", "1", "1", "1", "1">>, <<"@", "a", ".", "a", "a">>, <<"a">>, <<" ">> }

Texts == UNION { { Flatten(ps) : ps \in [1..k -> TextPieces] } : k \in 0..MaxPieces }

\* The layout lines of a PDF's first page, top to bottom.
Pages ==
    { <<>>,
      << mkLine(<<"R", "e", "s", "u", "m", "e">>, 700, 20, TRUE, TRUE),
         mkLine(<<"a">>, 650, 12, FALSE, FALSE) >>,
      << mkLine(<<"a", " ", "a">>, 700, 20, TRUE, FALSE),
         mkLine(<<"1", " ", "a">>, 650, 12, FALSE, TRUE) >> }

\* Offsets a flagger proposes: before the text, inside it and, for the short
\* texts, beyond it.
FlagOffsets == -1..2

FlagLabels == {"org", "email"}

Proposals ==
    { [start |-> a, end |-> b, label |-> l, shape |-> "ok"] :
        <<a, b, l>> \in FlagOffsets \X FlagOffsets \X FlagLabels }

\* Proposals that are not of the declared shape: null, and one without a label.
Malformed ==
    { [start |-> 0, end |-> 0, label |-> "undefined", shape |-> "null"],
      [start |-> 0, end |-> 1, label |-> "undefined", shape |-> "nolabel"] }

\* A well-formed proposal followed by a malformed one.
MixedOutputs ==
    { <<f, m>> : f \in { g \in Proposals : g.start = 0 /\ g.end = 1 }, m \in Malformed }

\* Two well-formed proposals.
PairOutputs ==
    LET some == { g \in Proposals : g.label = "org" /\ g.start \in {-1, 1} /\ g.end = 2 }
    IN  { <<f, g>> : f \in some, g \in some }

\* What a flagger returns: no proposal, one, two well-formed ones, or a
\* well-formed one followed by a malformed one.
FlaggerOutputs ==
    {<<>>} \cup { <<f>> : f \in Proposals \cup Malformed } \cup PairOutputs \cup MixedOutputs

OptModes == { NoModes, [NoModes EXCEPT !["name"] = "hash", !["email"] = "drop"] }

(***************************************************************************)
(* Specification of redactResumeFile: one invocation, a step per await     *)
(***************************************************************************)
Init ==
    /\ pc = "read"
    /\ ext \in {"pdf", "txt"}
    /\ detectName \in BOOLEAN
    /\ hasFlagger \in BOOLEAN
    /\ optModes \in OptModes
    /\ rawText = <<>> /\ layoutCandidate = NoLine /\ normalized = <<>>
    /\ spanList = <<>> /\ flagged = <<>> /\ flagOutcome = "uncalled"
    /\ hits = <<>> /\ modeTable = <<>>
    /\ redacted = <<>> /\ counts = <<>> /\ fileHash = <<>>
    /\ redactedFile = "untouched" /\ reportFile = "untouched"
    /\ error = "none"
    /\ PipeRestIdle

\* Lines 369-402 and the call of line 407: the document is read (a PDF's text
\* is its pages' items, each page ended by a newline), the name candidate
\* chosen, the text normalized and scanned, the name span added, and the
\* flagger, if any, called.
ReadOk ==
    /\ pc = "read"
    /\ \E t \in Texts, page \in Pages :
          LET raw  == IF ext = "pdf" THEN t \o <<"\n">> ELSE t
              cand == nameCandidate(ext, detectName, page)
              norm == normalizeText(raw)
          IN  /\ rawText' = raw
              /\ layoutCandidate' = cand
              /\ normalized' = norm
              /\ spanList' = findRegexSpans(norm) \o layoutSpans(norm, cand)
    /\ pc' = IF hasFlagger THEN "flag" ELSE "redact"
    /\ UNCHANGED <<optionVars, flagged, flagOutcome, hits, modeTable, redacted, counts, fileHash,
                   redactedFile, reportFile, error, pipeRest>>

\* Mutant: a failed read is taken for an empty document.
ReadFail_GoesOn ==
    /\ pc = "read"
    /\ pc' = "redact"
    /\ error' = "read"
    /\ UNCHANGED <<optionVars, rawText, layoutCandidate, normalized, spanList, flagged,
                   flagOutcome, hits, modeTable, redacted, counts, fileHash, redactedFile,
                   reportFile, pipeRest>>

\* Lines 373 and 380: reading or decoding the document fails.
ReadFail ==
    /\ pc = "read"
    /\ pc' = "failed"
    /\ error' = "read"
    /\ UNCHANGED <<optionVars, rawText, layoutCandidate, normalized, spanList, flagged, flagOutcome, hits,
                   modeTable, redacted, counts, fileHash, redactedFile, reportFile, pipeRest>>

\* Lines 376 and 391: chooseNameCandidate or locateCandidateInNormalized
\* throws.  Neither call is inside a try, so the exception leaves
\* redactResumeFile.
LayoutThrows ==
    /\ pc = "read"
    /\ ext = "pdf" /\ detectName
    /\ pc' = "failed"
    /\ error' = "layout"
    /\ UNCHANGED <<optionVars, rawText, layoutCandidate, normalized, spanList, flagged,
                   flagOutcome, hits, modeTable, redacted, counts, fileHash, redactedFile,
                   reportFile, pipeRest>>

\* Lines 407-421: the flagger returns and its proposals are wrapped.
FlagReturns ==
    /\ pc = "flag"
    /\ \E out \in FlaggerOutputs :
          /\ flagged' = out
          /\ spanList' = flagLoop(spanList, normalized, out)
    /\ flagOutcome' = "returned"
    /\ pc' = "redact"
    /\ UNCHANGED <<optionVars, rawText, layoutCandidate, normalized, hits, modeTable, redacted,
                   counts, fileHash, redactedFile, reportFile, error, pipeRest>>

\* Lines 407 and 422-424: the flagger rejects.
FlagThrows ==
    /\ pc = "flag"
    /\ flagOutcome' = "threw"
    /\ pc' = flagThrowsTo
    /\ UNCHANGED <<optionVars, rawText, layoutCandidate, normalized, spanList, flagged, hits,
                   modeTable, redacted, counts, fileHash, redactedFile, reportFile, error,
                   pipeRest>>

\* Line 407: the flagger's promise never settles.  Nothing in the code ends
\* the await.
FlagHangs ==
    /\ pc = "flag"
    /\ flagOutcome' = "hung"
    /\ pc' = "flagHung"
    /\ UNCHANGED <<optionVars, rawText, layoutCandidate, normalized, spanList, flagged, hits,
                   modeTable, redacted, counts, fileHash, redactedFile, reportFile, error,
                   pipeRest>>

\* Mutant: the fingerprint is taken of the normalized text.
fingerprinted_Normalized == normalized

\* Line 436: what sha256Hex is handed for the document's fingerprint.
fingerprinted == rawText

\* Lines 428-438: merge, redact, tally, fingerprint.
Redact ==
    /\ pc = "redact"
    /\ LET merged == mergeAndDedupe(spanList)
           table  == effectiveModes(optModes)
       IN  /\ hits' = merged
           /\ modeTable' = table
           /\ IF applyThrows(merged)
              THEN /\ pc' = "failed"
                   /\ error' = "apply"
                   /\ UNCHANGED <<redacted, counts, fileHash>>
              ELSE /\ redacted' = applyRedaction(normalized, merged, table)
                   /\ counts' = tally(merged)
                   /\ fileHash' = sha256Hex(fingerprinted)
                   /\ pc' = "write1"
                   /\ UNCHANGED error
    /\ UNCHANGED <<optionVars, rawText, layoutCandidate, normalized, spanList, flagged, flagOutcome,
                   redactedFile, reportFile, pipeRest>>

\* Line 440: fs.writeFile(outRedactedPath, ...) resolves.
WriteRedactedOk ==
    /\ pc = "write1"
    /\ redactedFile' = "written"
    /\ pc' = "write2"
    /\ UNCHANGED <<optionVars, rawText, layoutCandidate, normalized, spanList, flagged, flagOutcome, hits,
                   modeTable, redacted, counts, fileHash, reportFile, error, pipeRest>>

\* Line 440: fs.writeFile rejects: before the file is opened (it is left as
\* it was) or after (it is left truncated or partly written).
WriteRedactedFail ==
    /\ pc = "write1"
    /\ redactedFile' \in {"untouched", "partial"}
    /\ pc' = "failed"
    /\ error' = "write"
    /\ UNCHANGED <<optionVars, rawText, layoutCandidate, normalized, spanList, flagged, flagOutcome, hits,
                   modeTable, redacted, counts, fileHash, reportFile, pipeRest>>

\* Lines 441-465: fs.writeFile(outReportPath, ...) resolves and the result is
\* returned.
WriteReportOk ==
    /\ pc = "write2"
    /\ reportFile' = "written"
    /\ pc' = "done"
    /\ UNCHANGED <<optionVars, rawText, layoutCandidate, normalized, spanList, flagged, flagOutcome, hits,
                   modeTable, redacted, counts, fileHash, redactedFile, error, pipeRest>>

\* Lines 441-465: fs.writeFile(outReportPath, ...) rejects.
WriteReportFail ==
    /\ pc = "write2"
    /\ reportFile' \in {"untouched", "partial"}
    /\ pc' = "failed"
    /\ error' = "write"
    /\ UNCHANGED <<optionVars, rawText, layoutCandidate, normalized, spanList, flagged, flagOutcome, hits,
                   modeTable, redacted, counts, fileHash, redactedFile, pipeRest>>

\* The caller gives up on the invocation (the process is interrupted) while
\* an await is pending.
Abort ==
    /\ pc \in {"read", "flag", "flagHung", "write1", "write2"}
    /\ pc' = "aborted"
    /\ UNCHANGED <<optionVars, rawText, layoutCandidate, normalized, spanList, flagged, flagOutcome, hits,
                   modeTable, redacted, counts, fileHash, redactedFile, reportFile, error,
                   pipeRest>>

\* The steps of the invocation itself.
PipelineStep ==
    \/ ReadOk \/ ReadFail \/ LayoutThrows
    \/ FlagReturns \/ FlagThrows
    \/ Redact
    \/ WriteRedactedOk \/ WriteRedactedFail
    \/ WriteReportOk \/ WriteReportFail

Next == PipelineStep \/ FlagHangs \/ Abort

Spec == Init /\ [][Next]_vars

(***************************************************************************)
(* Properties of redactResumeFile                                          *)
(***************************************************************************)
\* The candidate spans of an invocation made with no flagger.
SpansWithoutFlagger ==
    findRegexSpans(normalized) \o layoutSpans(normalized, layoutCandidate)

Resolved == pc \in {"write1", "write2", "done"}

\* C2: every span of the result, whichever detector produced it and
\* whatever offsets the flagger proposed, lies inside the normalized text, is
\* not empty, and carries the text it covers as its value.
C2_SpanValidity ==
    \A i \in 1..Len(hits) :
        /\ 0 <= hits[i].start
        /\ hits[i].start < hits[i].end
        /\ hits[i].end <= Len(normalized)
        /\ hits[i].value = Slice(normalized, hits[i].start, hits[i].end)

\* A result with a span of the flagger whose proposed offsets were out of the
\* text, next to a span of another detector.
C2_Witness ==
    /\ pc = "done"
    /\ \E i \in 1..Len(hits) : hits[i].source \in {"regex", "layout"}
    /\ \E i \in 1..Len(hits) : hits[i].source = "flagger"
    /\ \E j \in 1..Len(flagged) :
          flagged[j].start < 0 \/ flagged[j].end > Len(normalized)

\* C5: when the flagger's call raises, the invocation goes on as one made
\* with no flagger: its candidates, resolved spans and redacted text are those
\* of the other two detectors, it fails for no other reason than a write,
\* and when it is done both outputs are written.
C5_FlaggerFailOpen ==
    flagOutcome = "threw" =>
        /\ spanList = SpansWithoutFlagger
        /\ pc \in {"redact", "write1", "write2", "done", "failed", "aborted"}
        /\ pc = "failed" => error = "write"
        /\ Resolved =>
              /\ hits = mergeAndDedupe(SpansWithoutFlagger)
              /\ redacted = applyRedaction(normalized, hits, effectiveModes(optModes))
        /\ pc = "done" => redactedFile = "written" /\ reportFile = "written"

\* The flagger raised, the other detectors found spans, both outputs are
\* written.
C5_Witness ==
    /\ flagOutcome = "threw"
    /\ pc = "done"
    /\ hits # <<>>
    /\ redacted # normalized
    /\ redactedFile = "written" /\ reportFile = "written"

\* C6: an invocation that fails or is interrupted has created or
\* overwritten no output file, fully or partially.
C6_NoOutputOnFailure ==
    pc \in {"failed", "aborted"} =>
        redactedFile = "untouched" /\ reportFile = "untouched"

\* C10: a flagger call that never returns does not block the invocation: it
\* can still take a step of its own.
C10_FlaggerTimeBounded ==
    pc = "flagHung" => ENABLED PipelineStep

\* C11: a flagger that returns malformed output contributes nothing and
\* does not make the invocation fail: the candidates are those of the other
\* detectors and the only failure left is a write failure.
C11_MalformedAllOrNothing ==
    (flagOutcome = "returned" /\ \E j \in 1..Len(flagged) : flagged[j].shape # "ok") =>
        /\ spanList = SpansWithoutFlagger
        /\ pc = "failed" => error = "write"

\* An offset clamped into [0, n].
ClampedInto(x, n) == IF x < 0 THEN 0 ELSE IF x > n THEN n ELSE x

\* The spans the proposals fs stand for in a text: none for a proposal that is
\* empty after clamping, one otherwise.
RECURSIVE SpansOfProposals(_, _)
SpansOfProposals(fs, text) ==
    IF fs = <<>> THEN <<>>
    ELSE LET f  == Head(fs)
             cs == ClampedInto(f.start, Len(text))
             ce == ClampedInto(f.end, Len(text))
         IN  (IF ce <= cs THEN <<>>
              ELSE << [start |-> cs, end |-> ce, value |-> Slice(text, cs, ce),
                       kind |-> f.label, source |-> "flagger"] >>)
             \o SpansOfProposals(Tail(fs), text)

WellFormed(fs) == \A j \in 1..Len(fs) : fs[j].shape = "ok"

\* C12: the candidates added when a flagger returns its proposals are, in order,
\* one span per proposal that is not empty after both offsets are clamped
\* into the text, with the clamped offsets, the proposal's label as kind and
\* source flagger, and nothing for the others.
C12_ProposalsClamped ==
    [][(pc = "flag" /\ flagOutcome' = "returned" /\ WellFormed(flagged')) =>
          spanList' = spanList \o SpansOfProposals(flagged', normalized)]_vars

\* Two proposals were returned: one reaching out of the text was kept with
\* clamped offsets, the other one was dropped.
C12_Witness ==
    /\ flagOutcome = "returned"
    /\ Len(flagged) = 2 /\ WellFormed(flagged)
    /\ Len(spanList) = Len(SpansWithoutFlagger) + 1
    /\ spanList[Len(spanList)].source = "flagger"
    /\ \E j \in 1..2 : flagged[j].start < 0 /\ flagged[j].end > Len(normalized)

\* The mode of a kind as the caller is told: the override when one is given,
\* else the kind's fixed default.
ModeAsDocumented(kind, overrides) ==
    IF overrides[kind] # "undef" THEN overrides[kind]
    ELSE CASE kind \in {"email", "phone", "url", "linkedin", "github"} -> "hash"
           [] kind \in {"address", "name", "org", "loc"}                -> "mask"
           [] kind = "id"                                               -> "drop"

\* What stands for a span redacted in mode m.
ReplacementIn(m, s) ==
    CASE m = "drop" -> <<>>
      [] m = "mask" -> [i \in 1..(s.end - s.start) |-> "*"]
      [] m = "hash" -> makeTag(s.kind, s.value)

\* The text with every resolved span redacted in its documented mode.
RedactedAsDocumented ==
    LET n == Len(hits)
        piece(i) == Between(normalized, IF i = 1 THEN 0 ELSE hits[i - 1].end, hits[i].start)
                    \o ReplacementIn(ModeAsDocumented(hits[i].kind, optModes), hits[i])
    IN  Flatten([i \in 1..n |-> piece(i)])
        \o Between(normalized, IF n = 0 THEN 0 ELSE hits[n].end, Len(normalized))

\* C13: every resolved span is redacted in the caller's override for its
\* kind when there is one, else in the fixed default of its kind; the
\* effective table agrees with that for every kind, so an override for one
\* kind leaves the others alone.
C13_ModeResolution ==
    Resolved =>
        /\ \A k \in Kind : modeOf(k, modeTable) = ModeAsDocumented(k, optModes)
        /\ redacted = RedactedAsDocumented

\* A finished invocation with overrides, redacting a span of an overridden
\* kind next to one of a kind left at its default.
C13_Witness ==
    /\ pc = "done"
    /\ \E i \in 1..Len(hits) :
          /\ optModes[hits[i].kind] # "undef"
          /\ optModes[hits[i].kind] # defaultModes[hits[i].kind]
    /\ \E i \in 1..Len(hits) : optModes[hits[i].kind] = "undef"

(***************************************************************************)
(* Specification of two documents redacted side by side: each holds one    *)
(* hashed span somewhere in its text                                       *)
(***************************************************************************)
TagPadding == <<"x", " ", "y", "\n", "z", "w">>

TagValues == { <<"a">>, <<"a", "b">>, <<"b">> }

TagKinds == {"email", "phone"}

\* A document: some text before the span, the span's text, some text after.
TagDocs ==
    { [text |-> Slice(TagPadding, 0, n) \o v \o Slice(TagPadding, 0, m),
       span |-> MkSpan(n, n + Len(v), v, k, src)] :
         <<n, m, v, k, src>> \in
             (0..MaxTagPad) \X (0..1) \X TagValues \X TagKinds \X {"regex", "flagger"} }

InitTag ==
    /\ tpc = "input"
    /\ tagDocs \in [1..2 -> TagDocs]
    /\ tagOuts = <<>>
    /\ TagRestIdle

\* applyRedaction(text, [span], defaultModes) on each document.
RedactBoth ==
    /\ tpc = "input"
    /\ tagOuts' = [d \in 1..2 |->
                     applyRedaction(tagDocs[d].text, <<tagDocs[d].span>>, defaultModes)]
    /\ tpc' = "done"
    /\ UNCHANGED <<tagDocs, tagRest>>

NextTag == RedactBoth

SpecTag == InitTag /\ [][NextTag]_vars

\* The tag standing for the span of document d in its redacted text.
TagIn(d) ==
    LET doc == tagDocs[d]
        after == Len(doc.text) - doc.span.end
    IN  SubSeq(tagOuts[d], doc.span.start + 1, Len(tagOuts[d]) - after)

\* C14: two spans of the same kind and with equal values get the same tag,
\* whatever their documents, offsets and sources.
C14_TagDependsOnKindAndValue ==
    (tpc = "done" /\ tagDocs[1].span.kind = tagDocs[2].span.kind
                  /\ tagDocs[1].span.value = tagDocs[2].span.value) =>
        TagIn(1) = TagIn(2)

\* Two different documents holding the same value at different offsets and
\* from different sources, both redacted.
C14_Witness ==
    /\ tpc = "done"
    /\ tagDocs[1].text # tagDocs[2].text
    /\ tagDocs[1].span.kind = tagDocs[2].span.kind
    /\ tagDocs[1].span.value = tagDocs[2].span.value
    /\ tagDocs[1].span.start # tagDocs[2].span.start
    /\ tagDocs[1].span.source # tagDocs[2].span.source
    /\ IsTag(TagIn(1), tagDocs[1].span.kind)


\* C15: when reading or decoding the document fails the invocation has
\* failed for good, with both output files untouched and nothing computed;
\* and while the document is still being read no file has been touched.
C15_ReadFailureWritesNothing ==
    /\ error = "read" =>
          /\ pc = "failed"
          /\ ~ ENABLED Next
          /\ redactedFile = "untouched" /\ reportFile = "untouched"
          /\ normalized = <<>> /\ hits = <<>> /\ redacted = <<>>
    /\ pc = "read" => redactedFile = "untouched" /\ reportFile = "untouched"

\* Decoding a PDF failed.
C15_Witness ==
    /\ error = "read" /\ pc = "failed" /\ ext = "pdf"
    /\ redactedFile = "untouched" /\ reportFile = "untouched"


\* The candidates that come from the layout detector.
LayoutSpansIn(ss) == { i \in 1..Len(ss) : ss[i].source = "layout" }

\* C16: the candidates hold at most one span from the layout detector,
\* and none unless the input is a PDF and name detection is on.
C16_LayoutOnlyForPdf ==
    /\ Cardinality(LayoutSpansIn(spanList)) <= 1
    /\ LayoutSpansIn(spanList) # {} => (ext = "pdf" /\ detectName)
    /\ LayoutSpansIn(hits) \subseteq (IF ext = "pdf" /\ detectName THEN 1..Len(hits) ELSE {})

\* A PDF whose text holds the name candidate twice got one layout span.
C16_Witness ==
    /\ pc = "done" /\ ext = "pdf" /\ detectName
    /\ Cardinality(LayoutSpansIn(spanList)) = 1
    /\ Len(normalized) >= 3
    /\ normalized[1] = "a" /\ normalized[2] = "a"


\* How many spans of ss are of kind k.
RECURSIVE CountOfKind(_, _)
CountOfKind(ss, k) ==
    IF ss = <<>> THEN 0
    ELSE (IF Head(ss).kind = k THEN 1 ELSE 0) + CountOfKind(Tail(ss), k)

\* The sum of the entries of a table of counts.
RECURSIVE SumOfCounts(_, _)
SumOfCounts(table, keys) ==
    IF keys = {} THEN 0
    ELSE LET k == CHOOSE x \in keys : TRUE
         IN  table[k] + SumOfCounts(table, keys \ {k})

\* C17: the counts of the result tally the resolved spans: a kind is in
\* the table exactly when a resolved span is of that kind, its entry is the
\* number of those spans, and the entries sum to the number of resolved spans.
C17_CountsTally ==
    Resolved =>
        /\ \A k \in Kind : (k \in DOMAIN counts) <=> (CountOfKind(hits, k) > 0)
        /\ DOMAIN counts \subseteq Kind
        /\ \A k \in DOMAIN counts : counts[k] = CountOfKind(hits, k)
        /\ SumOfCounts(counts, DOMAIN counts) = Len(hits)

\* A result with two spans of one kind, found by different detectors.
C17_Witness ==
    /\ pc = "done"
    /\ Len(hits) = 2
    /\ hits[1].source # hits[2].source
    /\ \E k \in DOMAIN counts : counts[k] = 2


\* C18: the fingerprint of the result is the hash of the raw text as it was
\* extracted, whatever the options, the flagger and the layout candidate.
C18_FingerprintOfRawText ==
    Resolved => fileHash = sha256Hex(rawText)

\* A result whose raw, normalized and redacted texts all differ, with a
\* flagger, overrides and a name candidate in play: the fingerprint is that of
\* the raw text and of neither of the others.
C18_Witness ==
    /\ pc = "done"
    /\ rawText # normalized /\ normalized # redacted
    /\ fileHash # sha256Hex(normalized) /\ fileHash # sha256Hex(redacted)
    /\ hasFlagger /\ flagged # <<>> /\ optModes # NoModes /\ layoutCandidate # NoLine


\* C19: an exception raised while the name candidate is scored or located
\* does not make the invocation fail.
C19_LayoutFailureDegrades ==
    error = "layout" => pc # "failed"


\* Candidate i comes before candidate j in the sort order: start ascending,
\* end descending, and for spans equal in both the order they were given in.
SortsBefore(i, j) ==
    LET a == candidates[i]
        b == candidates[j]
    IN  \/ a.start < b.start
        \/ a.start = b.start /\ a.end > b.end
        \/ a.start = b.start /\ a.end = b.end /\ i < j

\* The rank of a source.
SourceRank(src) ==
    CASE src = "regex" -> 3 [] src = "flagger" -> 2 [] src = "layout" -> 2
      [] src = "ner" -> 1 [] OTHER -> 0

\* Candidates i and j overlap each other and no other candidate.
OverlapOnlyEachOther(i, j) ==
    /\ i # j
    /\ Overlap(candidates[i], candidates[j])
    /\ \A k \in 1..Len(candidates) :
          k \notin {i, j} => /\ ~ Overlap(candidates[k], candidates[i])
                             /\ ~ Overlap(candidates[k], candidates[j])

InResolved(s) == \E r \in 1..Len(resolved) : resolved[r] = s

Occurrences(ss, s) == Cardinality({ i \in 1..Len(ss) : ss[i] = s })

\* C21: every span of the resolver's output is one of the candidates, equal
\* to it in start, end, value, kind and source, and occurs in the output no
\* more often than among the candidates.
C21_ResolverOnlySelects ==
    rpc = "done" =>
        \A r \in 1..Len(resolved) :
            /\ \E i \in 1..Len(candidates) :
                  /\ candidates[i].start = resolved[r].start
                  /\ candidates[i].end = resolved[r].end
                  /\ candidates[i].value = resolved[r].value
                  /\ candidates[i].kind = resolved[r].kind
                  /\ candidates[i].source = resolved[r].source
            /\ Occurrences(resolved, resolved[r]) <= Occurrences(candidates, resolved[r])

\* Three candidates, two of them overlapping at different starts, the later
\* one preferred: two spans are left.
C21_Witness ==
    /\ rpc = "done"
    /\ Len(candidates) = 3
    /\ Len(resolved) = 2
    /\ \E i, j \in 1..3 :
          /\ candidates[i].start < candidates[j].start
          /\ Overlap(candidates[i], candidates[j])
          /\ InResolved(candidates[j]) /\ ~ InResolved(candidates[i])


\* C30: every candidate handed to the resolver is overlapped by at least
\* one span of its output.
C30_NoCandidateLeftUncovered ==
    rpc = "done" =>
        \A i \in 1..Len(candidates) :
            \E r \in 1..Len(resolved) : Overlap(candidates[i], resolved[r])

(***************************************************************************)
(* Specification of the name detector: every first page within the bounds  *)
(***************************************************************************)
\* Texts of layout lines: a heading, a heading followed by more, a word that
\* only begins like a heading, one and two tokens, six tokens, a line with a
\* digit, an email address.
LineTexts ==
    { <<"R", "e", "s", "u", "m", "e">>,
      <<"c", "v", " ", "a">>,
      <<"c", "v", "s">>,
      <<"a">>,
      <<"b", " ", "b">>,
      <<"a", " ", "a", " ", "a", " ", "a", " ", "a", " ", "a">>,
      <<"1", " ", "a">>,
      <<"a", "@", "a", ".", "a", "a">> }

\* Largest font size, centred, bold.
LineStyles == { <<10, FALSE, FALSE>>, <<20, FALSE, FALSE>>, <<10, TRUE, FALSE>>, <<10, FALSE, TRUE>> }

\* The rounded baselines of a page, top to bottom: the keys of byY, which
\* pdfExtractWithLayout sorts in descending order.
Baselines == <<700, 690, 650>>

\* The pages of at most k lines on baselines taken, in order, from ys.
RECURSIVE PagesOn(_, _)
PagesOn(ys, k) ==
    IF k = 0 \/ ys = <<>> THEN {<<>>}
    ELSE PagesOn(Tail(ys), k) \cup
         { <<mkLine(t, Head(ys), st[1], st[2], st[3])>> \o rest :
             t \in LineTexts, st \in LineStyles, rest \in PagesOn(Tail(ys), k - 1) }

InitLayout ==
    /\ lpc = "input"
    /\ lPage \in PagesOn(Baselines, MaxLines)
    /\ lChosen = <<>>
    /\ LayoutRestIdle

\* layoutCandidate = chooseNameCandidate(firstPageLines, viewportWidth)
Choose ==
    /\ lpc = "input"
    /\ lChosen' = chooseNameCandidate(lPage)
    /\ lpc' = "done"
    /\ UNCHANGED <<lPage, layoutRest>>

NextLayout == Choose

SpecLayout == InitLayout /\ [][NextLayout]_vars

(***************************************************************************)
(* Properties of the name detector                                         *)
(***************************************************************************)
\* The number of tokens of a text: its maximal runs of characters that are
\* not white space.
TokensIn(text) ==
    Cardinality({ i \in 1..Len(text) :
                    ~ IsSpace(text[i]) /\ (i = 1 \/ IsSpace(text[i - 1])) })

\* The text is a section heading or begins with one followed by a space,
\* whatever the case of its letters.
HeadingLike(text) ==
    LET t == trim(text)
    IN  \E w \in headers :
           /\ Len(t) >= Len(w)
           /\ \A i \in 1..Len(w) : toLowerCase(t[i]) = w[i]
           /\ Len(t) = Len(w) \/ t[Len(w) + 1] = " "

\* A line passes every filter of the name detector.
PassesFilters(l) ==
    /\ TokensIn(l.text) >= 1 /\ TokensIn(l.text) <= 5
    /\ \A i \in 1..Len(l.text) : ~ IsDigit(l.text[i])
    /\ ~ test(emailRe, l.text) /\ ~ test(phoneRe, l.text)
    /\ ~ HeadingLike(l.text)

\* Line i of the page is the one that was chosen.
ChosenIs(i) ==
    /\ lChosen.text = lPage[i].text /\ lChosen.y = lPage[i].y
    /\ lChosen.maxFont = lPage[i].maxFont
    /\ lChosen.centered = lPage[i].centered /\ lChosen.bold = lPage[i].bold

MaxAttempts == 3

\* const nowEpoch = Math.floor(Date.now() / 1000): read once, before the
\* loop.  Times are in seconds from that reading.
nowEpoch == 0

\* options.method left out.
NoMethod == <<"undefined">>

\* options?.method
MethodOptions ==
    { NoMethod, <<"g", "e", "t">>, <<"H", "E", "A", "D">>, <<"P", "O", "S", "T">> }

\* options?.method?.toUpperCase() ?? "POST"
methodOf(m) ==
    IF m = NoMethod THEN <<"P", "O", "S", "T">>
    ELSE [i \in 1..Len(m) |-> toUpperCase(m[i])]

\* No Idempotency-Key among the headers.
NoKey == "undefined"

\* options?.headers["Idempotency-Key"]: left out, empty, or a key.
CallerKeys == { NoKey, "", "caller-key" }

\* What crypto.randomUUID() may return.
Uuids == { "uuid-1", "uuid-2" }

\* Mutant: the key is generated whatever the caller supplied.
buildHeadersWithIdempotencyKey_Overwrites(key, uuid) == uuid

\* buildHeadersWithIdempotencyKey: the headers' own key unless it is falsy.
buildHeadersWithIdempotencyKey(key, uuid) ==
    IF key = NoKey \/ key = "" THEN uuid ELSE key

\* const headers = method === "GET" || method === "HEAD" ? options?.headers
\*     : this.buildHeadersWithIdempotencyKey(options?.headers ?? {})
headersOf(m, key, uuid) ==
    IF m = <<"G", "E", "T">> \/ m = <<"H", "E", "A", "D">> THEN key
    ELSE buildHeadersWithIdempotencyKey(key, uuid)

\* The keychain holds no token bundle.
NoTokens == [present |-> FALSE, expiresAt |-> 0]

\* expiresAt of the stored bundle when the call starts.
TokenExpiries == { -10, 0, 20, 30, 40, 1000 }

\* expires_in of the bundle a refresh brings.
ExpiresIn == { 3600 }

\* Seconds a request takes: answered at once, or aborted by the 30 s timer.
RequestSeconds == { 0, 30 }

\* ApiClientError.statusCode left undefined.
NoStatus == 0

\* What sendRequestInternal does: "ok" returns the body, "status" throws the
\* ApiClientError of a response that is not ok, "network" throws an
\* ApiClientError without status (fetch rejected, aborted, or the body did
\* not parse), "raw" throws something that is no ApiClientError before the
\* request is sent (loadTokens or new URL).
Responses ==
    { [kind |-> "ok", statusCode |-> 200], [kind |-> "network", statusCode |-> NoStatus],
      [kind |-> "raw", statusCode |-> NoStatus] }
    \cup { [kind |-> "status", statusCode |-> c] : c \in {401, 404, 408, 429, 500, 599} }

\* The exception an iteration ends with: api is e instanceof ApiClientError.
Err(api, statusCode, n) == [api |-> api, statusCode |-> statusCode, attempt |-> n]

NoError == Err(FALSE, NoStatus, 0)

\* tokens.expiresAt <= nowEpoch + 30
tokenExpiresSoon(tokens) == tokens.expiresAt <= nowEpoch + 30

\* tokens.expiresAt <= nowEpoch
tokenAlreadyExpired(tokens) == tokens.expiresAt <= nowEpoch

\* lastStatusCode === 401 || tokenExpiresSoon || tokenAlreadyExpired
needsRefresh(last, tokens) ==
    last = 401 \/ tokenExpiresSoon(tokens) \/ tokenAlreadyExpired(tokens)

\* The refresh failed: lastStatusCode === 401 || tokenAlreadyExpired
refreshFatal(last, tokens) == last = 401 \/ tokenAlreadyExpired(tokens)

\* Mutant: every failure is retried.
retriableStatus_Any(statusCode) == TRUE

\* !e.statusCode || 408 || 429 || (500 <= e.statusCode < 600)
retriableStatus(statusCode) ==
    \/ statusCode = NoStatus
    \/ statusCode = 408 \/ statusCode = 429
    \/ (statusCode >= 500 /\ statusCode < 600)

\* Mutant: the last attempt's failure is retried like any other.
rethrows_NoLimit(e, att, maxAtt) ==
    \/ ~ e.api
    \/ ~ retriableStatus(e.statusCode)

\* The catch block throws: no ApiClientError, the last attempt, or a status
\* that is not retriable.
rethrows(e, att, maxAtt) ==
    \/ ~ e.api
    \/ att = maxAtt
    \/ ~ retriableStatus(e.statusCode)

\* sleep(attempt): 2^(attempt - 1) seconds; the jitter is below 100 ms.
backoff(att) == 2 ^ (Max(0, att - 1))

\* The catch block of the loop, entered with e when the clock reads now.
Caught(e, now) ==
    IF rethrows(e, attempt, sOptions.maxAttempts)
    THEN /\ spc' = "thrown"
         /\ sError' = (IF e.api THEN e ELSE Err(TRUE, NoStatus, e.attempt))
         /\ sClock' = now
         /\ UNCHANGED <<attempt, lastStatusCode>>
    ELSE /\ spc' = "attempt"
         /\ lastStatusCode' = e.statusCode
         /\ sClock' = now + backoff(attempt)
         /\ attempt' = attempt + 1
         /\ UNCHANGED sError

\* What an iteration leaves in the log.
Entry(refresh, sent, used, outcome) ==
    [at |-> sClock, tokens |-> sTokens, last |-> lastStatusCode, refresh |-> refresh,
     sent |-> sent, key |-> sHeaders, used |-> used, outcome |-> outcome]

InitSend ==
    /\ spc = "attempt"
    /\ \E m \in MethodOptions, a \in BOOLEAN, k \in CallerKeys, n \in 0..MaxAttempts,
          u \in Uuids :
          /\ sOptions = [method |-> m, auth |-> a, key |-> k, maxAttempts |-> n]
          /\ sMethod = methodOf(m)
          /\ sHeaders = headersOf(methodOf(m), k, u)
    /\ sTokens \in {NoTokens} \cup { [present |-> TRUE, expiresAt |-> x] : x \in TokenExpiries }
    /\ attempt = 1
    /\ lastStatusCode = NoStatus
    /\ sClock = nowEpoch
    /\ sLog = <<>>
    /\ sResult = 0
    /\ sError = NoError
    /\ SendRestIdle

\* An iteration that finds no tokens: the 401 of line 162.
AttemptNoTokens ==
    /\ spc = "attempt" /\ attempt <= sOptions.maxAttempts
    /\ sOptions.auth /\ ~ sTokens.present
    /\ sLog' = Append(sLog, Entry("none", FALSE, sTokens, Err(TRUE, 401, attempt)))
    /\ Caught(Err(TRUE, 401, attempt), sClock)
    /\ UNCHANGED <<sOptions, sMethod, sHeaders, sTokens, sResult, sendRest>>

\* An iteration whose refresh fails after a 401 or with the token expired:
\* the 401 of line 181.
AttemptRefreshFatal ==
    /\ spc = "attempt" /\ attempt <= sOptions.maxAttempts
    /\ sOptions.auth /\ sTokens.present
    /\ needsRefresh(lastStatusCode, sTokens) /\ refreshFatal(lastStatusCode, sTokens)
    /\ sLog' = Append(sLog, Entry("failed", FALSE, sTokens, Err(TRUE, 401, attempt)))
    /\ Caught(Err(TRUE, 401, attempt), sClock)
    /\ UNCHANGED <<sOptions, sMethod, sHeaders, sTokens, sResult, sendRest>>

\* An iteration that reaches sendRequestInternal: after a refresh that
\* succeeded, after one that failed on a token only expiring soon, or with
\* no refresh.
AttemptRequest ==
    /\ spc = "attempt" /\ attempt <= sOptions.maxAttempts
    /\ sOptions.auth => sTokens.present
    /\ \E refresh \in {"none", "ok", "failed"}, r \in Responses, secs \in RequestSeconds,
          e \in ExpiresIn :
          LET refreshing == sOptions.auth /\ needsRefresh(lastStatusCode, sTokens)
              used == IF refresh = "ok" THEN [present |-> TRUE, expiresAt |-> sClock + e]
                      ELSE sTokens
              err  == Err(r.kind # "raw", r.statusCode, attempt)
          IN  /\ (refresh = "none") <=> ~ refreshing
              /\ refresh = "failed" => ~ refreshFatal(lastStatusCode, sTokens)
              /\ secs # 0 => r.kind = "network"
              /\ sTokens' = used
              /\ IF r.kind = "ok"
                 THEN /\ sLog' = Append(sLog, Entry(refresh, TRUE, used, NoError))
                      /\ spc' = "returned"
                      /\ sResult' = attempt
                      /\ sClock' = sClock + secs
                      /\ UNCHANGED <<attempt, lastStatusCode, sError>>
                 ELSE /\ sLog' = Append(sLog, Entry(refresh, r.kind # "raw", used, err))
                      /\ Caught(err, sClock + secs)
                      /\ UNCHANGED sResult
    /\ UNCHANGED <<sOptions, sMethod, sHeaders, sendRest>>

\* The loop ends without a break: result is still undefined.
LoopExit ==
    /\ spc = "attempt" /\ attempt > sOptions.maxAttempts
    /\ spc' = "returned"
    /\ UNCHANGED <<sOptions, sMethod, sHeaders, attempt, lastStatusCode, sTokens, sClock,
                   sLog, sResult, sError, sendRest>>

NextSend == AttemptNoTokens \/ AttemptRefreshFatal \/ AttemptRequest \/ LoopExit

SpecSend == InitSend /\ [][NextSend]_vars

(***************************************************************************)
(* Properties of sendRequest                                               *)
(***************************************************************************)
\* The iteration ended with a failure that may be retried: an ApiClientError
\* with no status, or with status 408, 429 or 5xx.
RetriableFailure(o) ==
    /\ o # NoError /\ o.api
    /\ o.statusCode \in {NoStatus, 408, 429} \cup (500..599)

\* The call ended by throwing the error of iteration i.
ThrewErrorOf(i) ==
    /\ spc = "thrown"
    /\ sError.attempt = i /\ sError.statusCode = sLog[i].outcome.statusCode

GetOrHead == sMethod \in { <<"G", "E", "T">>, <<"H", "E", "A", "D">> }

\* C22: when an attempt of an authenticated call is answered with 401 and
\* attempts remain, the call does not end with that 401: the token is
\* refreshed and the request is sent again.
C22_RefreshAndRetryOn401 ==
    spc # "idle" =>
        \A i \in 1..Len(sLog) :
            (sOptions.auth /\ sLog[i].sent /\ sLog[i].outcome.statusCode = 401
               /\ i < sOptions.maxAttempts)
            => /\ ~ ThrewErrorOf(i)
               /\ Len(sLog) > i => sLog[i + 1].refresh # "none"

\* C25: a call makes at most maxAttempts attempts; the first attempt that
\* succeeds is the last and its result is returned; when attempt number
\* maxAttempts fails, its error is thrown.
C25_AtMostMaxAttempts ==
    spc # "idle" =>
        /\ Len(sLog) <= sOptions.maxAttempts
        /\ spc = "attempt" => attempt = Len(sLog) + 1
        /\ \A i \in 1..Len(sLog) :
              sLog[i].outcome = NoError =>
                  i = Len(sLog) /\ spc = "returned" /\ sResult = i
        /\ (spc = "returned" /\ sLog # <<>>) => sLog[Len(sLog)].outcome = NoError
        /\ (sLog # <<>> /\ Len(sLog) = sOptions.maxAttempts
              /\ sLog[Len(sLog)].outcome # NoError)
           => ThrewErrorOf(Len(sLog))

\* Every allowed attempt failed with a server error and the last one's error
\* was thrown.
C25_Witness ==
    /\ spc = "thrown"
    /\ Len(sLog) = sOptions.maxAttempts /\ Len(sLog) >= 2
    /\ \A i \in 1..Len(sLog) : sLog[i].sent /\ sLog[i].outcome.statusCode = 500
    /\ ThrewErrorOf(Len(sLog))

C27_SameIdempotencyKey ==
    spc # "idle" =>
        /\ \A i, j \in 1..Len(sLog) : sLog[i].key = sLog[j].key
        /\ \A i \in 1..Len(sLog) :
              IF GetOrHead THEN sLog[i].key = sOptions.key /\ sLog[i].key \notin Uuids
              ELSE IF sOptions.key \notin {NoKey, ""} THEN sLog[i].key = sOptions.key
              ELSE sLog[i].key \in Uuids

\* Two requests of a POST whose caller gave no key were sent with one
\* generated key.
C27_Witness ==
    /\ spc # "idle" /\ Len(sLog) = 2
    /\ sMethod = <<"P", "O", "S", "T">> /\ sOptions.key = NoKey
    /\ sLog[1].sent /\ sLog[2].sent
    /\ sLog[1].key \in Uuids /\ sLog[2].key = sLog[1].key

\* C28: before an authenticated attempt a token that expires within 30
\* seconds is refreshed first; when the refresh fails, the request is sent
\* with the old token if that has not yet expired, and otherwise no request
\* is sent and the call fails with 401.
C28_RefreshBeforeExpiry ==
    spc # "idle" =>
        \A i \in 1..Len(sLog) :
            (sOptions.auth /\ sLog[i].tokens.present) =>
                /\ sLog[i].tokens.expiresAt <= sLog[i].at + 30 => sLog[i].refresh # "none"
                /\ (sLog[i].refresh = "failed" /\ sLog[i].tokens.expiresAt > sLog[i].at)
                   => /\ sLog[i].used = sLog[i].tokens
                      /\ sLog[i].outcome.api => sLog[i].sent
                /\ (sLog[i].refresh = "failed" /\ sLog[i].tokens.expiresAt <= sLog[i].at)
                   => ~ sLog[i].sent /\ ThrewErrorOf(i) /\ sError.statusCode = 401

(***************************************************************************)
(* auth logout (src/commands/auth.ts) and checkUserStatus (src/lib/api.ts) *)
(***************************************************************************)
\* An access or refresh token that the bundle lacks.
NoToken == "undefined"

\* The keychain holds no bundle.
NoBundle == [accessToken |-> NoToken, refreshToken |-> NoToken]

\* The bundles the keychain may hold when the command starts.
Bundles ==
    [accessToken : {NoToken, "a1"}, refreshToken : {NoToken, "r1", "r2"}]

\* What the keychain holds after a sendRequest that found b: b itself, or
\* the bundle a refresh saved, with or without a refresh token.
afterRequest(b) ==
    {b} \cup [accessToken : {"a2"}, refreshToken : {NoToken, "r3"}]

\* A request sent or a deletion done: what, with which token, and whether it
\* succeeded.
Event(op, token, ok) == [op |-> op, token |-> token, ok |-> ok]

\* checkUserStatus has not been called.
Pending == [kind |-> "pending", api |-> FALSE, statusCode |-> NoStatus, truthy |-> FALSE]

\* The statuses of the ApiClientError a sendRequest may throw.
StatusErrors == {NoStatus, 401, 403, 404, 429, 500, 503}

\* Mutant: no failure of the status check stops the logout.
abortsLogout_Never(st) == FALSE

\* e instanceof ApiClientError && e.statusCode !== 401
abortsLogout(st) == st.kind = "error" /\ st.api /\ st.statusCode # 401

InitLogout ==
    /\ opc = "start"
    /\ oStored \in Bundles
    /\ oTokens = oStored
    /\ oStatus = Pending
    /\ oEvents = <<>>
    /\ LogoutRestIdle

\* if (!tokens?.refreshToken) return
AlreadyLoggedOut ==
    /\ opc = "start" /\ oTokens.refreshToken = NoToken
    /\ opc' = "done"
    /\ UNCHANGED <<oStored, oTokens, oStatus, oEvents, logoutRest>>

\* Where the command goes once checkUserStatus has ended with st.
afterStatus(st) ==
    IF abortsLogout(st) THEN "aborted"
    ELSE IF st.kind = "ok" /\ st.truthy THEN "revoke"
    ELSE "delete"

\* checkUserStatus finds no access token and throws an Error.
StatusNoJwt ==
    /\ opc = "start" /\ oTokens.refreshToken # NoToken
    /\ oTokens.accessToken = NoToken
    /\ oStatus' = [kind |-> "error", api |-> FALSE, statusCode |-> NoStatus, truthy |-> FALSE]
    /\ opc' = afterStatus(oStatus')
    /\ UNCHANGED <<oStored, oTokens, oEvents, logoutRest>>

\* checkUserStatus returns what GET /user/status answered.
StatusReturns ==
    /\ opc = "start" /\ oTokens.refreshToken # NoToken
    /\ oTokens.accessToken # NoToken
    /\ \E t \in BOOLEAN :
          oStatus' = [kind |-> "ok", api |-> FALSE, statusCode |-> NoStatus, truthy |-> t]
    /\ oTokens' \in afterRequest(oTokens)
    /\ oEvents' = Append(oEvents, Event("status", oTokens'.accessToken, TRUE))
    /\ opc' = afterStatus(oStatus')
    /\ UNCHANGED <<oStored, logoutRest>>

\* checkUserStatus throws the ApiClientError of sendRequest.
StatusThrows ==
    /\ opc = "start" /\ oTokens.refreshToken # NoToken
    /\ oTokens.accessToken # NoToken
    /\ \E c \in StatusErrors :
          oStatus' = [kind |-> "error", api |-> TRUE, statusCode |-> c, truthy |-> FALSE]
    /\ oTokens' \in afterRequest(oTokens)
    /\ oEvents' = Append(oEvents, Event("status", oTokens'.accessToken, FALSE))
    /\ opc' = afterStatus(oStatus')
    /\ UNCHANGED <<oStored, logoutRest>>

\* if (status): revokeRefreshToken for the bundle loaded again, its failure
\* caught and logged; no request without a refresh token.
Revoke ==
    /\ opc = "revoke"
    /\ IF oTokens.refreshToken # NoToken
       THEN /\ \E ok \in BOOLEAN :
                  oEvents' = Append(oEvents, Event("revoke", oTokens.refreshToken, ok))
            /\ oTokens' \in afterRequest(oTokens)
       ELSE UNCHANGED <<oEvents, oTokens>>
    /\ opc' = "delete"
    /\ UNCHANGED <<oStored, oStatus, logoutRest>>

\* await deleteTokens()
Delete ==
    /\ opc = "delete"
    /\ oTokens' = NoBundle
    /\ oEvents' = Append(oEvents, Event("delete", NoToken, TRUE))
    /\ opc' = "done"
    /\ UNCHANGED <<oStored, oStatus, logoutRest>>

NextLogout ==
    AlreadyLoggedOut \/ StatusNoJwt \/ StatusReturns \/ StatusThrows \/ Revoke \/ Delete

SpecLogout == InitLogout /\ [][NextLogout]_vars

(***************************************************************************)
(* Properties of auth logout                                               *)
(***************************************************************************)
\* The event occurs among the first n events.
Happened(ev, n) == \E i \in 1..n : oEvents[i].op = ev

\* The status check failed with an ApiClientError whose status is not 401.
StatusCheckBroke == oStatus.kind = "error" /\ oStatus.api /\ oStatus.statusCode # 401

==========================================================================
